---- MODULE Spec2Model ----
(***************************************************************************)
(* Model of three adapters of the STACKIT Terraform provider:              *)
(*   - the Argus instance resource    (stackit/services/argus/instance)    *)
(*   - the DNS record set resource    (package dns, resource)              *)
(*   - the DNS record set data source (package dns, data source)           *)
(*                                                                         *)
(* One behaviour follows one adapter object.  The object's only field is   *)
(* its API client; everything else a handler works on arrives in the       *)
(* request (plan, prior state, configuration, import id) and in the        *)
(* answers of the SDK, and leaves in the response (diagnostics, state).    *)
(* Strings are sequences of one-character strings, so that strings.Split   *)
(* and strings.Join are computed and not assumed.                          *)
(***************************************************************************)
EXTENDS Integers, Sequences, FiniteSets, TLC

VARIABLES kind, client, pc, req, resp

vars == <<kind, client, pc, req, resp>>

(***************************************************************************)
(* Bounds of the model.                                                    *)
(***************************************************************************)
MaxIdLen == 5
MaxPlans == 2
MaxInstances == 2

(***************************************************************************)
(* Strings.                                                                *)
(***************************************************************************)
Separator == ","

Chars == {"a", "b", Separator}

RECURSIVE StrsOfLen(_)
StrsOfLen(n) ==
  IF n = 0 THEN {<<>>}
  ELSE {Append(s, c) : s \in StrsOfLen(n - 1), c \in Chars}

StrsUpTo(n) == UNION {StrsOfLen(k) : k \in 0..n}

HasSeparator(s) == \E i \in 1..Len(s) : s[i] = Separator

FirstSeparator(s) == CHOOSE i \in 1..Len(s) : s[i] = Separator /\ \A j \in 1..(i - 1) : s[j] # Separator

RECURSIVE Split(_)
Split(s) ==
  IF ~HasSeparator(s) THEN <<s>>
  ELSE LET i == FirstSeparator(s)
       IN <<SubSeq(s, 1, i - 1)>> \o Split(SubSeq(s, i + 1, Len(s)))

RECURSIVE Join(_)
Join(parts) ==
  IF Len(parts) = 0 THEN <<>>
  ELSE IF Len(parts) = 1 THEN parts[1]
  ELSE parts[1] \o <<Separator>> \o Join(Tail(parts))

ToLower(c) == IF c = "X" THEN "x" ELSE IF c = "Y" THEN "y" ELSE c

EqualFold(s, t) == Len(s) = Len(t) /\ \A i \in 1..Len(s) : ToLower(s[i]) = ToLower(t[i])

(***************************************************************************)
(* Go pointers to optional response fields: nil or a value.                *)
(***************************************************************************)
NilStr == [some |-> FALSE, v |-> <<>>]
NilInt == [some |-> FALSE, v |-> 0]
NilBool == [some |-> FALSE, v |-> FALSE]
NilMap == [some |-> FALSE, v |-> <<>>]
Ptr(x) == [some |-> TRUE, v |-> x]

(***************************************************************************)
(* Values of the plugin framework (types.String, types.Int64, types.Bool,  *)
(* types.Map, types.List): null, unknown or known.                         *)
(***************************************************************************)
StringNull == [k |-> "null", v |-> <<>>]
StringUnknown == [k |-> "unknown", v |-> <<>>]
StringValue(s) == [k |-> "known", v |-> s]
StringPointerValue(p) == IF p.some THEN StringValue(p.v) ELSE StringNull
ValueString(x) == IF x.k = "known" THEN x.v ELSE <<>>
ValueStringPointer(x) == IF x.k = "null" THEN NilStr ELSE Ptr(ValueString(x))

Int64Null == [k |-> "null", v |-> 0]
Int64Unknown == [k |-> "unknown", v |-> 0]
Int64Value(n) == [k |-> "known", v |-> n]

BoolNull == [k |-> "null", v |-> FALSE]
BoolUnknown == [k |-> "unknown", v |-> FALSE]
BoolPointerValue(p) == IF p.some THEN [k |-> "known", v |-> p.v] ELSE BoolNull

MapNull == [k |-> "null", v |-> <<>>]
MapUnknown == [k |-> "unknown", v |-> <<>>]
MapValue(m) == [k |-> "known", v |-> m]

ListNull == [k |-> "null", v |-> <<>>]
ListValue(l) == [k |-> "known", v |-> l]

(***************************************************************************)
(* Diagnostics: the summaries of the error diagnostics, in order.          *)
(***************************************************************************)
NoDiags == <<>>
AddError(diags, summary) == Append(diags, summary)
LogAndAddError(diags, summary) == AddError(diags, summary)
HasError(diags) == Len(diags) > 0

(***************************************************************************)
(* The response of a handler, as the framework sees it after the call:     *)
(*   diags     resp.Diagnostics (error summaries)                          *)
(*   calls     the SDK requests and wait handlers issued, in order         *)
(*             (name, arguments, payload, timeout in minutes, answer)      *)
(*   stateSet  whether resp.State.Set was executed, state its argument     *)
(*   setAttrs  the resp.State.SetAttribute calls of ImportState, in order  *)
(*   panicked  the handler dereferenced a nil pointer                      *)
(*   mapped    "none" (mapFields not reached), "ok", "err"                 *)
(***************************************************************************)
NoModel == [absent |-> TRUE]
NoPayload == [absent |-> TRUE]

\* A context: what cancels it, and the log fields attached to it.  A call
\* is made with the context the handler received unless stated otherwise.
RequestContext == [done |-> "request", fields |-> <<>>]

Background == [done |-> "never", fields |-> <<>>]

\* tflog.SetField returns a context derived from ctx that carries the field.
SetField(ctx, key, value) == [ctx EXCEPT !.fields = Append(@, <<key, value>>)]

ZoneContext(projectId, zoneId) ==
  SetField(SetField(RequestContext, "project_id", projectId), "zone_id", zoneId)

RecordSetContext(projectId, zoneId, recordSetId) ==
  SetField(ZoneContext(projectId, zoneId), "record_set_id", recordSetId)

In(ctx, call) == [call EXCEPT !.ctx = ctx]

SdkCall(name, args, payload, answer) ==
  [name |-> name, wait |-> FALSE, args |-> args, payload |-> payload,
   timeout |-> 0, ok |-> ~answer.err, answer |-> answer, ctx |-> RequestContext]

WaitCall(name, args, minutes, answer) ==
  [name |-> name, wait |-> TRUE, args |-> args, payload |-> NoPayload,
   timeout |-> minutes, ok |-> ~answer.err, answer |-> answer, ctx |-> RequestContext]

Response(op, diags, calls, mapped) ==
  [op |-> op, diags |-> diags, calls |-> calls, stateSet |-> FALSE,
   state |-> NoModel, setAttrs |-> <<>>, panicked |-> FALSE, mapped |-> mapped]

StateSet(op, diags, calls, model) ==
  [Response(op, diags, calls, "ok") EXCEPT !.stateSet = TRUE, !.state = model]

Panic(op, diags, calls, mapped) ==
  [Response(op, diags, calls, mapped) EXCEPT !.panicked = TRUE]

NoResponse == Response("none", NoDiags, <<>>, "none")

(***************************************************************************)
(* Argus instance resource: the state model and the SDK's answers.         *)
(***************************************************************************)
ArgusModel(projectId, instanceId, name, planName, planId, parameters, id, rest) ==
  [Id |-> id, ProjectId |-> projectId, InstanceId |-> instanceId, Name |-> name,
   PlanName |-> planName, PlanId |-> planId, Parameters |-> parameters,
   DashboardURL |-> [k |-> rest, v |-> <<>>],
   IsUpdatable |-> [k |-> rest, v |-> FALSE],
   GrafanaURL |-> [k |-> rest, v |-> <<>>],
   GrafanaPublicReadAccess |-> [k |-> rest, v |-> FALSE],
   GrafanaInitialAdminPassword |-> [k |-> rest, v |-> <<>>],
   GrafanaInitialAdminUser |-> [k |-> rest, v |-> <<>>],
   MetricsRetentionDays |-> [k |-> rest, v |-> 0],
   MetricsRetentionDays5mDownsampling |-> [k |-> rest, v |-> 0],
   MetricsRetentionDays1hDownsampling |-> [k |-> rest, v |-> 0],
   MetricsURL |-> [k |-> rest, v |-> <<>>],
   MetricsPushURL |-> [k |-> rest, v |-> <<>>],
   TargetsURL |-> [k |-> rest, v |-> <<>>],
   AlertingURL |-> [k |-> rest, v |-> <<>>],
   LogsURL |-> [k |-> rest, v |-> <<>>],
   LogsPushURL |-> [k |-> rest, v |-> <<>>],
   JaegerTracesURL |-> [k |-> rest, v |-> <<>>],
   JaegerUIURL |-> [k |-> rest, v |-> <<>>],
   OtlpTracesURL |-> [k |-> rest, v |-> <<>>],
   ZipkinSpansURL |-> [k |-> rest, v |-> <<>>]]

\* argus.InstanceSensitiveData, the Instance part of an InstanceResponse.
ArgusInstance(raw, m5, h1, url, flag) ==
  [GrafanaUrl |-> url, GrafanaPublicReadAccess |-> flag, GrafanaAdminPassword |-> url,
   GrafanaAdminUser |-> url, MetricsRetentionTimeRaw |-> raw,
   MetricsRetentionTime5m |-> m5, MetricsRetentionTime1h |-> h1,
   MetricsUrl |-> url, PushMetricsUrl |-> url, TargetsUrl |-> url,
   AlertingUrl |-> url, LogsUrl |-> url, LogsPushUrl |-> url,
   JaegerTracesUrl |-> url, JaegerUiUrl |-> url, OtlpTracesUrl |-> url,
   ZipkinSpansUrl |-> url]

NilInstance == [some |-> FALSE, v |-> ArgusInstance(NilInt, NilInt, NilInt, NilStr, NilBool)]

\* argus.InstanceResponse
ArgusInstanceResponse(id, planName, planId, name, parameters, isUpdatable, dashboardUrl, instance) ==
  [Id |-> id, PlanName |-> planName, PlanId |-> planId, Name |-> name,
   Parameters |-> parameters, IsUpdatable |-> isUpdatable,
   DashboardUrl |-> dashboardUrl, Instance |-> instance]

NilInstanceResponse ==
  [some |-> FALSE,
   v |-> ArgusInstanceResponse(NilStr, NilStr, NilStr, NilStr, NilMap, NilBool, NilStr, NilInstance)]

(***************************************************************************)
(* mapFields of the Argus instance resource.  The callers always pass the  *)
(* address of a local model, so the model is never nil.  The result is     *)
(* the returned error ("" for nil), whether the call panicked, and the     *)
(* model as the call left it.                                              *)
(***************************************************************************)
ArgusMapInstance(i, model) ==
  [model EXCEPT
     !.GrafanaURL = StringPointerValue(i.GrafanaUrl),
     !.GrafanaPublicReadAccess = BoolPointerValue(i.GrafanaPublicReadAccess),
     !.GrafanaInitialAdminPassword = StringPointerValue(i.GrafanaAdminPassword),
     !.GrafanaInitialAdminUser = StringPointerValue(i.GrafanaAdminUser),
     !.MetricsRetentionDays = Int64Value(i.MetricsRetentionTimeRaw.v),
     !.MetricsRetentionDays5mDownsampling = Int64Value(i.MetricsRetentionTime5m.v),
     !.MetricsRetentionDays1hDownsampling = Int64Value(i.MetricsRetentionTime1h.v),
     !.MetricsURL = StringPointerValue(i.MetricsUrl),
     !.MetricsPushURL = StringPointerValue(i.PushMetricsUrl),
     !.TargetsURL = StringPointerValue(i.TargetsUrl),
     !.AlertingURL = StringPointerValue(i.AlertingUrl),
     !.LogsURL = StringPointerValue(i.LogsUrl),
     !.LogsPushURL = StringPointerValue(i.LogsPushUrl),
     !.JaegerTracesURL = StringPointerValue(i.JaegerTracesUrl),
     !.JaegerUIURL = StringPointerValue(i.JaegerUiUrl),
     !.OtlpTracesURL = StringPointerValue(i.OtlpTracesUrl),
     !.ZipkinSpansURL = StringPointerValue(i.ZipkinSpansUrl)]

\* Mutation: the identifier parts in the wrong order.
ArgusIdPartsSwapped(model, instanceId) == <<instanceId, ValueString(model.ProjectId)>>

ArgusIdParts(model, instanceId) == <<ValueString(model.ProjectId), instanceId>>

ArgusMapFields(r, model) ==
  IF ~r.some THEN [err |-> "response input is nil", panicked |-> FALSE, model |-> model]
  ELSE IF ValueString(model.InstanceId) = <<>> /\ ~r.v.Id.some
  THEN [err |-> "instance id not present", panicked |-> FALSE, model |-> model]
  ELSE
    LET instanceId == IF ValueString(model.InstanceId) # <<>>
                      THEN ValueString(model.InstanceId)
                      ELSE r.v.Id.v
        idParts == ArgusIdParts(model, instanceId)
        m1 == [model EXCEPT
                 !.Id = StringValue(Join(idParts)),
                 !.InstanceId = StringValue(instanceId),
                 !.PlanName = StringPointerValue(r.v.PlanName),
                 !.PlanId = StringPointerValue(r.v.PlanId),
                 !.Name = StringPointerValue(r.v.Name),
                 !.Parameters = IF r.v.Parameters.some
                                THEN MapValue(r.v.Parameters.v)
                                ELSE MapNull,
                 !.IsUpdatable = BoolPointerValue(r.v.IsUpdatable),
                 !.DashboardURL = StringPointerValue(r.v.DashboardUrl)]
    IN IF ~r.v.Instance.some THEN [err |-> "", panicked |-> FALSE, model |-> m1]
       ELSE IF \/ ~r.v.Instance.v.MetricsRetentionTimeRaw.some
               \/ ~r.v.Instance.v.MetricsRetentionTime5m.some
               \/ ~r.v.Instance.v.MetricsRetentionTime1h.some
       THEN [err |-> "", panicked |-> TRUE, model |-> m1]
       ELSE [err |-> "", panicked |-> FALSE, model |-> ArgusMapInstance(r.v.Instance.v, m1)]

(***************************************************************************)
(* Payloads.  Parameters are a map from keys to strings, kept as a         *)
(* sequence of <<key, value>> pairs; attr.Value.String() of a string value *)
(* is the value in double quotes.                                          *)
(***************************************************************************)
Quoted(s) == <<"\"">> \o s \o <<"\"">>

ParameterPayload(parameters) ==
  [i \in 1..Len(parameters.v) |-> <<parameters.v[i][1], Quoted(parameters.v[i][2])>>]

ArgusToCreatePayload(model) ==
  [Name |-> ValueStringPointer(model.Name),
   PlanId |-> ValueStringPointer(model.PlanId),
   Parameter |-> ParameterPayload(model.Parameters)]

ArgusToUpdatePayload(model) ==
  [Name |-> ValueStringPointer(model.Name),
   PlanId |-> ValueStringPointer(model.PlanId),
   Parameter |-> ParameterPayload(model.Parameters)]

(***************************************************************************)
(* loadPlanId: one GetPlans request, then the first plan whose name equals *)
(* plan_name ignoring case and whose id is present.                        *)
(***************************************************************************)
RECURSIVE FirstPlan(_, _, _)
FirstPlan(plans, planName, i) ==
  IF i > Len(plans) THEN 0
  ELSE IF ~plans[i].Name.some THEN FirstPlan(plans, planName, i + 1)
  ELSE IF EqualFold(plans[i].Name.v, planName) /\ plans[i].PlanId.some THEN i
  ELSE FirstPlan(plans, planName, i + 1)

loadPlanId(diags, model, getPlans) ==
  LET call == SdkCall("GetPlans", <<ValueString(model.ProjectId)>>, NoPayload, getPlans)
  IN IF getPlans.err
     THEN [panicked |-> FALSE, diags |-> AddError(diags, "Failed to list argus plans"),
           model |-> model, calls |-> <<call>>]
     ELSE IF ~getPlans.plans.some
     THEN [panicked |-> TRUE, diags |-> diags, model |-> model, calls |-> <<call>>]
     ELSE
       LET planName == ValueString(model.PlanName)
           i == FirstPlan(getPlans.plans.v, planName, 1)
           m1 == IF i = 0 THEN model
                 ELSE [model EXCEPT !.PlanId = StringPointerValue(getPlans.plans.v[i].PlanId)]
       IN IF ValueString(m1.PlanId) = <<>>
          THEN [panicked |-> FALSE, diags |-> AddError(diags, "Invalid plan_name"),
                model |-> m1, calls |-> <<call>>]
          ELSE [panicked |-> FALSE, diags |-> diags, model |-> m1, calls |-> <<call>>]

(***************************************************************************)
(* Handlers of the Argus instance resource.  The parameters are the        *)
(* request (whether Plan.Get / State.Get succeeds, and the plan or state   *)
(* it yields) and the answers of the SDK:                                  *)
(*   getPlans  [err, plans]        create  [err, instanceId]               *)
(*   wait      [err, typeOk, resp] get     [err, resp]                     *)
(*   update, delete, delWait       [err]                                   *)
(***************************************************************************)
GetDiags(ok, what) == IF ok THEN NoDiags ELSE <<what>>

ArgusCreateRequest(calls, projectId, payload, create) ==
  Append(calls, SdkCall("CreateInstance", <<projectId>>, payload, create))

ArgusCreateWait(calls, instanceId, projectId, wait) ==
  Append(calls, WaitCall("CreateInstanceWaitHandler", <<instanceId, projectId>>, 20, wait))

\* Mutation: an empty instance id in the create response is accepted.
ArgusCreateAcceptsEmptyId(planOk, plan, getPlans, create, wait) ==
  LET diags == GetDiags(planOk, "Plan.Get")
  IN IF HasError(diags) THEN Response("Create", diags, <<>>, "none")
     ELSE
       LET projectId == ValueString(plan.ProjectId)
           lp == loadPlanId(diags, plan, getPlans)
       IN IF lp.panicked THEN Panic("Create", lp.diags, lp.calls, "none")
          ELSE IF HasError(diags)  \* the diagnostics of Plan.Get, not those loadPlanId wrote to
          THEN Response("Create", lp.diags, lp.calls, "none")
          ELSE
            LET payload == ArgusToCreatePayload(lp.model)
                c1 == ArgusCreateRequest(lp.calls, projectId, payload, create)
            IN IF create.err
               THEN Response("Create", AddError(lp.diags, "Error creating instance"), c1, "none")
               ELSE IF ~create.instanceId.some
               THEN Response("Create", AddError(lp.diags, "Error creating instance"), c1, "none")
               ELSE
                 LET c2 == ArgusCreateWait(c1, create.instanceId.v, projectId, wait)
                 IN IF wait.err
                    THEN Response("Create", AddError(lp.diags, "Error creating instance"), c2, "none")
                    ELSE IF ~wait.typeOk
                    THEN Response("Create", AddError(lp.diags, "Error creating instance"), c2, "none")
                    ELSE
                      LET mf == ArgusMapFields(wait.resp, lp.model)
                      IN IF mf.panicked THEN Panic("Create", lp.diags, c2, "none")
                         ELSE IF mf.err # ""
                         THEN Response("Create", AddError(lp.diags, "Error mapping fields"), c2, "err")
                         ELSE StateSet("Create", lp.diags, c2, mf.model)

ArgusCreate(planOk, plan, getPlans, create, wait) ==
  LET diags == GetDiags(planOk, "Plan.Get")
  IN IF HasError(diags) THEN Response("Create", diags, <<>>, "none")
     ELSE
       LET projectId == ValueString(plan.ProjectId)
           lp == loadPlanId(diags, plan, getPlans)
       IN IF lp.panicked THEN Panic("Create", lp.diags, lp.calls, "none")
          ELSE IF HasError(diags)  \* the diagnostics of Plan.Get, not those loadPlanId wrote to
          THEN Response("Create", lp.diags, lp.calls, "none")
          ELSE
            LET payload == ArgusToCreatePayload(lp.model)
                c1 == ArgusCreateRequest(lp.calls, projectId, payload, create)
            IN IF create.err
               THEN Response("Create", AddError(lp.diags, "Error creating instance"), c1, "none")
               ELSE IF ~create.instanceId.some \/ create.instanceId.v = <<>>
               THEN Response("Create", AddError(lp.diags, "Error creating instance"), c1, "none")
               ELSE
                 LET c2 == ArgusCreateWait(c1, create.instanceId.v, projectId, wait)
                 IN IF wait.err
                    THEN Response("Create", AddError(lp.diags, "Error creating instance"), c2, "none")
                    ELSE IF ~wait.typeOk
                    THEN Response("Create", AddError(lp.diags, "Error creating instance"), c2, "none")
                    ELSE
                      LET mf == ArgusMapFields(wait.resp, lp.model)
                      IN IF mf.panicked THEN Panic("Create", lp.diags, c2, "none")
                         ELSE IF mf.err # ""
                         THEN Response("Create", AddError(lp.diags, "Error mapping fields"), c2, "err")
                         ELSE StateSet("Create", lp.diags, c2, mf.model)

\* Mutation: a failed GetInstance is issued a second time.
ArgusReadRequestRetry(calls, instanceId, projectId, get) ==
  LET call == SdkCall("GetInstance", <<instanceId, projectId>>, NoPayload, get)
  IN IF get.err THEN <<call, call>> ELSE <<call>>

ArgusReadRequest(calls, instanceId, projectId, get) ==
  Append(calls, SdkCall("GetInstance", <<instanceId, projectId>>, NoPayload, get))

ArgusRead(stateOk, state, get) ==
  LET diags == GetDiags(stateOk, "State.Get")
  IN IF HasError(diags) THEN Response("Read", diags, <<>>, "none")
     ELSE
       LET projectId == ValueString(state.ProjectId)
           instanceId == ValueString(state.InstanceId)
           c1 == ArgusReadRequest(<<>>, instanceId, projectId, get)
       IN IF get.err
          THEN Response("Read", AddError(diags, "Error reading instance"), c1, "none")
          ELSE
            LET mf == ArgusMapFields(get.resp, state)
            IN IF mf.panicked THEN Panic("Read", diags, c1, "none")
               ELSE IF mf.err # ""
               THEN Response("Read", AddError(diags, "Error mapping fields"), c1, "err")
               ELSE StateSet("Read", diags, c1, mf.model)

ArgusUpdate(planOk, plan, getPlans, update, wait) ==
  LET diags == GetDiags(planOk, "Plan.Get")
  IN IF HasError(diags) THEN Response("Update", diags, <<>>, "none")
     ELSE
       LET projectId == ValueString(plan.ProjectId)
           instanceId == ValueString(plan.InstanceId)
           lp == loadPlanId(diags, plan, getPlans)
       IN IF lp.panicked THEN Panic("Update", lp.diags, lp.calls, "none")
          ELSE IF HasError(diags)  \* the diagnostics of Plan.Get, not those loadPlanId wrote to
          THEN Response("Update", lp.diags, lp.calls, "none")
          ELSE
            LET payload == ArgusToUpdatePayload(lp.model)
                c1 == Append(lp.calls, SdkCall("UpdateInstance", <<instanceId, projectId>>,
                                               payload, update))
            IN IF update.err
               THEN Response("Update", AddError(lp.diags, "Error updating instance"), c1, "none")
               ELSE
                 LET c2 == Append(c1, WaitCall("UpdateInstanceWaitHandler",
                                               <<instanceId, projectId>>, 20, wait))
                 IN IF wait.err
                    THEN Response("Update", AddError(lp.diags, "Error updating instance"), c2, "none")
                    ELSE IF ~wait.typeOk
                    THEN Response("Update", AddError(lp.diags, "Error updating instance"), c2, "none")
                    ELSE
                      LET mf == ArgusMapFields(wait.resp, lp.model)
                      IN IF mf.panicked THEN Panic("Update", lp.diags, c2, "none")
                         ELSE IF mf.err # ""
                         THEN Response("Update", AddError(lp.diags, "Error mapping fields in update"), c2, "err")
                         ELSE StateSet("Update", lp.diags, c2, mf.model)

\* Mutation: the error of the delete wait handler is dropped.
ArgusDeleteWaitUnchecked(stateOk, state, delete, delWait) ==
  LET diags == GetDiags(stateOk, "State.Get")
  IN IF HasError(diags) THEN Response("Delete", diags, <<>>, "none")
     ELSE
       LET projectId == ValueString(state.ProjectId)
           instanceId == ValueString(state.InstanceId)
           c1 == <<SdkCall("DeleteInstance", <<instanceId, projectId>>, NoPayload, delete)>>
       IN IF delete.err
          THEN Response("Delete", AddError(diags, "Error deleting instance"), c1, "none")
          ELSE Response("Delete", diags,
                        Append(c1, WaitCall("DeleteInstanceWaitHandler",
                                            <<instanceId, projectId>>, 10, delWait)), "none")

ArgusDelete(stateOk, state, delete, delWait) ==
  LET diags == GetDiags(stateOk, "State.Get")
  IN IF HasError(diags) THEN Response("Delete", diags, <<>>, "none")
     ELSE
       LET projectId == ValueString(state.ProjectId)
           instanceId == ValueString(state.InstanceId)
           c1 == <<SdkCall("DeleteInstance", <<instanceId, projectId>>, NoPayload, delete)>>
       IN IF delete.err
          THEN Response("Delete", AddError(diags, "Error deleting instance"), c1, "none")
          ELSE
            LET c2 == Append(c1, WaitCall("DeleteInstanceWaitHandler",
                                          <<instanceId, projectId>>, 10, delWait))
            IN IF delWait.err
               THEN Response("Delete", AddError(diags, "Error deleting instance"), c2, "none")
               ELSE Response("Delete", diags, c2, "none")

SetAttribute(attrs, path, value) == Append(attrs, [path |-> path, value |-> value])

\* Mutation: the two parts are assigned to the wrong attributes.
ArgusImportStateSwapped(id) ==
  LET idParts == Split(id)
  IN IF Len(idParts) # 2 \/ idParts[1] = <<>> \/ idParts[2] = <<>>
     THEN Response("ImportState", AddError(NoDiags, "Unexpected Import Identifier"), <<>>, "none")
     ELSE [Response("ImportState", NoDiags, <<>>, "none") EXCEPT
             !.setAttrs = SetAttribute(SetAttribute(<<>>, "project_id", idParts[2]),
                                       "instance_id", idParts[1])]

ArgusImportState(id) ==
  LET idParts == Split(id)
  IN IF Len(idParts) # 2 \/ idParts[1] = <<>> \/ idParts[2] = <<>>
     THEN Response("ImportState", AddError(NoDiags, "Unexpected Import Identifier"), <<>>, "none")
     ELSE [Response("ImportState", NoDiags, <<>>, "none") EXCEPT
             !.setAttrs = SetAttribute(SetAttribute(<<>>, "project_id", idParts[1]),
                                       "instance_id", idParts[2])]

(***************************************************************************)
(* DNS record set: the state model shared by the resource and the data     *)
(* source, and the SDK's answers.                                          *)
(***************************************************************************)
DnsModel(id, recordSetId, zoneId, projectId, active, comment, name, records, ttl, type, error, state) ==
  [Id |-> id, RecordSetId |-> recordSetId, ZoneId |-> zoneId, ProjectId |-> projectId,
   Active |-> active, Comment |-> comment, Name |-> name, Records |-> records,
   TTL |-> ttl, Type |-> type, Error |-> error, State |-> state]

\* dns.RecordSet, the Rrset part of a RecordSetResponse; records is a pointer
\* to a list of pointers to the records' contents.
DnsRecordSet(id, records, active, comment, error, name, state, ttl, type) ==
  [Id |-> id, Records |-> records, Active |-> active, Comment |-> comment,
   Error |-> error, Name |-> name, State |-> state, Ttl |-> ttl, Type |-> type]

NilRrset ==
  [some |-> FALSE,
   v |-> DnsRecordSet(NilStr, NilMap, NilBool, NilStr, NilStr, NilStr, NilStr, NilInt, NilStr)]

\* dns.RecordSetResponse
NilRecordSetResponse == [some |-> FALSE, v |-> [Rrset |-> NilRrset]]

\* conversion.ToTypeInt64 and conversion.ToPtrInt32
ToTypeInt64(p) == IF p.some THEN Int64Value(p.v) ELSE Int64Null
ToPtrInt32(x) == IF x.k = "known" THEN Ptr(x.v) ELSE NilInt

\* Mutation: the Id of the response takes precedence over the model's.
DnsMapFieldsResponseFirst(recordSetResp, model) ==
  IF ~recordSetResp.some \/ ~recordSetResp.v.Rrset.some
  THEN [err |-> "response input is nil", model |-> model]
  ELSE
    LET recordSet == recordSetResp.v.Rrset.v
    IN IF ValueString(model.RecordSetId) = <<>> /\ ~recordSet.Id.some
       THEN [err |-> "record set id not present", model |-> model]
       ELSE
         LET recordSetId == IF recordSet.Id.some
                            THEN recordSet.Id.v
                            ELSE ValueString(model.RecordSetId)
             idParts == <<ValueString(model.ProjectId), ValueString(model.ZoneId), recordSetId>>
         IN [err |-> "",
             model |-> [model EXCEPT
               !.Records = IF ~recordSet.Records.some THEN ListNull
                           ELSE ListValue([i \in 1..Len(recordSet.Records.v) |->
                                             StringPointerValue(recordSet.Records.v[i])]),
               !.Id = StringValue(Join(idParts)),
               !.RecordSetId = StringPointerValue(recordSet.Id),
               !.Active = BoolPointerValue(recordSet.Active),
               !.Comment = StringPointerValue(recordSet.Comment),
               !.Error = StringPointerValue(recordSet.Error),
               !.Name = StringPointerValue(recordSet.Name),
               !.State = StringPointerValue(recordSet.State),
               !.TTL = ToTypeInt64(recordSet.Ttl),
               !.Type = StringPointerValue(recordSet.Type)]]

DnsMapFields(recordSetResp, model) ==
  IF ~recordSetResp.some \/ ~recordSetResp.v.Rrset.some
  THEN [err |-> "response input is nil", model |-> model]
  ELSE
    LET recordSet == recordSetResp.v.Rrset.v
    IN IF ValueString(model.RecordSetId) = <<>> /\ ~recordSet.Id.some
       THEN [err |-> "record set id not present", model |-> model]
       ELSE
         LET recordSetId == IF ValueString(model.RecordSetId) # <<>>
                            THEN ValueString(model.RecordSetId)
                            ELSE recordSet.Id.v
             idParts == <<ValueString(model.ProjectId), ValueString(model.ZoneId), recordSetId>>
         IN [err |-> "",
             model |-> [model EXCEPT
               !.Records = IF ~recordSet.Records.some THEN ListNull
                           ELSE ListValue([i \in 1..Len(recordSet.Records.v) |->
                                             StringPointerValue(recordSet.Records.v[i])]),
               !.Id = StringValue(Join(idParts)),
               !.RecordSetId = StringPointerValue(recordSet.Id),
               !.Active = BoolPointerValue(recordSet.Active),
               !.Comment = StringPointerValue(recordSet.Comment),
               !.Error = StringPointerValue(recordSet.Error),
               !.Name = StringPointerValue(recordSet.Name),
               !.State = StringPointerValue(recordSet.State),
               !.TTL = ToTypeInt64(recordSet.Ttl),
               !.Type = StringPointerValue(recordSet.Type)]]


\* mapFields takes the model by pointer; the handlers pass &model.
NilModel == [some |-> FALSE, v |-> NoModel]

ArgusMapFieldsOn(r, model) ==
  IF ~r.some THEN [err |-> "response input is nil", model |-> model]
  ELSE IF ~model.some THEN [err |-> "model input is nil", model |-> model]
  ELSE LET out == ArgusMapFields(r, model.v)
       IN [err |-> out.err, model |-> Ptr(out.model)]

DnsMapFieldsOn(recordSetResp, model) ==
  IF ~recordSetResp.some \/ ~recordSetResp.v.Rrset.some
  THEN [err |-> "response input is nil", model |-> model]
  ELSE IF ~model.some THEN [err |-> "model input is nil", model |-> model]
  ELSE LET out == DnsMapFields(recordSetResp, model.v)
       IN [err |-> out.err, model |-> Ptr(out.model)]

RecordPayloads(records) ==
  [i \in 1..Len(records.v) |-> [Content |-> ValueStringPointer(records.v[i])]]

DnsToCreatePayload(model) ==
  [Comment |-> ValueStringPointer(model.Comment), Name |-> ValueStringPointer(model.Name),
   Records |-> RecordPayloads(model.Records), Ttl |-> ToPtrInt32(model.TTL),
   Type |-> ValueStringPointer(model.Type)]

DnsToUpdatePayload(model) ==
  [Comment |-> ValueStringPointer(model.Comment), Name |-> ValueStringPointer(model.Name),
   Records |-> RecordPayloads(model.Records), Ttl |-> ToPtrInt32(model.TTL)]

(***************************************************************************)
(* Handlers of the DNS record set resource.  create and get are            *)
(* [err, resp] with resp a pointer to a RecordSetResponse; wait is         *)
(* [err, typeOk, resp]; update, delete and delWait are [err].              *)
(***************************************************************************)
\* Mutation: the wait handler is given the zone where the record set belongs.
DnsCreateWaitOnZone(calls, projectId, zoneId, recordSetId, wait) ==
  Append(calls, In(RecordSetContext(projectId, zoneId, recordSetId),
                   WaitCall("CreateRecordSetWaitHandler", <<projectId, zoneId, zoneId>>, 1, wait)))

DnsCreateWait(calls, projectId, zoneId, recordSetId, wait) ==
  Append(calls, In(RecordSetContext(projectId, zoneId, recordSetId),
                   WaitCall("CreateRecordSetWaitHandler", <<projectId, zoneId, recordSetId>>, 1, wait)))

DnsCreate(planOk, plan, create, wait) ==
  LET diags == GetDiags(planOk, "Plan.Get")
  IN IF HasError(diags) THEN Response("Create", diags, <<>>, "none")
     ELSE
       LET projectId == ValueString(plan.ProjectId)
           zoneId == ValueString(plan.ZoneId)
           payload == DnsToCreatePayload(plan)
           c1 == <<In(ZoneContext(projectId, zoneId),
                      SdkCall("CreateRecordSet", <<projectId, zoneId>>, payload, create))>>
       IN IF create.err \/ ~create.resp.v.Rrset.some \/ ~create.resp.v.Rrset.v.Id.some
          THEN Response("Create", LogAndAddError(diags, "Error creating recordset"), c1, "none")
          ELSE
            LET c2 == DnsCreateWait(c1, projectId, zoneId, create.resp.v.Rrset.v.Id.v, wait)
            IN IF wait.err
               THEN Response("Create", LogAndAddError(diags, "Error creating recordset"), c2, "none")
               ELSE IF ~wait.typeOk
               THEN Response("Create", LogAndAddError(diags, "Error creating recordset"), c2, "none")
               ELSE
                 LET mf == DnsMapFields(wait.resp, plan)
                 IN IF mf.err # ""
                    THEN Response("Create", LogAndAddError(diags, "Error mapping fields"), c2, "err")
                    ELSE StateSet("Create", diags, c2, mf.model)

\* Mutation: the record sets of the zone are listed before the one is fetched.
DnsReadRequestListFirst(calls, projectId, zoneId, recordSetId, get) ==
  calls \o <<In(RecordSetContext(projectId, zoneId, recordSetId),
                SdkCall("GetRecordSets", <<projectId, zoneId>>, NoPayload, get)),
             In(RecordSetContext(projectId, zoneId, recordSetId),
                SdkCall("GetRecordSet", <<projectId, zoneId, recordSetId>>, NoPayload, get))>>

DnsReadRequest(calls, projectId, zoneId, recordSetId, get) ==
  Append(calls, In(RecordSetContext(projectId, zoneId, recordSetId),
                   SdkCall("GetRecordSet", <<projectId, zoneId, recordSetId>>, NoPayload, get)))

DnsRead(stateOk, state, get) ==
  LET diags == GetDiags(stateOk, "State.Get")
  IN IF HasError(diags) THEN Response("Read", diags, <<>>, "none")
     ELSE
       LET projectId == ValueString(state.ProjectId)
           zoneId == ValueString(state.ZoneId)
           recordSetId == ValueString(state.RecordSetId)
           c1 == DnsReadRequest(<<>>, projectId, zoneId, recordSetId, get)
       IN IF get.err
          THEN Response("Read", LogAndAddError(diags, "Error reading zones"), c1, "none")
          ELSE
            LET mf == DnsMapFields(get.resp, state)
            IN IF mf.err # ""
               THEN Response("Read", LogAndAddError(diags, "Error mapping fields"), c1, "err")
               ELSE StateSet("Read", diags, c1, mf.model)

DnsUpdate(planOk, plan, update, wait, get) ==
  LET diags == GetDiags(planOk, "Plan.Get")
  IN IF HasError(diags) THEN Response("Update", diags, <<>>, "none")
     ELSE
       LET projectId == ValueString(plan.ProjectId)
           zoneId == ValueString(plan.ZoneId)
           recordSetId == ValueString(plan.RecordSetId)
           payload == DnsToUpdatePayload(plan)
           c1 == <<In(RecordSetContext(projectId, zoneId, recordSetId),
                      SdkCall("UpdateRecordSet", <<projectId, zoneId, recordSetId>>,
                              payload, update))>>
       IN IF update.err
          THEN Response("Update", LogAndAddError(diags, "Error updating recordset"), c1, "none")
          ELSE
            LET c2 == Append(c1, In(RecordSetContext(projectId, zoneId, recordSetId),
                                 WaitCall("UpdateRecordSetWaitHandler",
                                          <<projectId, zoneId, recordSetId>>, 1, wait)))
            IN IF wait.err
               THEN Response("Update", LogAndAddError(diags, "Error updating recordset"), c2, "none")
               ELSE IF ~wait.typeOk
               THEN Response("Update", LogAndAddError(diags, "Error updating recordset"), c2, "none")
               ELSE
                 LET c3 == Append(c2, In(RecordSetContext(projectId, zoneId, recordSetId),
                                      SdkCall("GetRecordSet", <<projectId, zoneId, recordSetId>>,
                                              NoPayload, get)))
                 IN IF get.err
                    THEN Response("Update", LogAndAddError(diags, "Error reading updated data"), c3, "none")
                    ELSE
                      LET mf == DnsMapFields(get.resp, plan)
                      IN IF mf.err # ""
                         THEN Response("Update", LogAndAddError(diags, "Error mapping fields in update"), c3, "err")
                         ELSE StateSet("Update", diags, c3, mf.model)

\* Mutation: the delete wait handler runs on a context of its own.
DnsDeleteDetached(stateOk, state, delete, delWait) ==
  LET diags == GetDiags(stateOk, "State.Get")
  IN IF HasError(diags) THEN Response("Delete", diags, <<>>, "none")
     ELSE
       LET projectId == ValueString(state.ProjectId)
           zoneId == ValueString(state.ZoneId)
           recordSetId == ValueString(state.RecordSetId)
           c1 == <<In(RecordSetContext(projectId, zoneId, recordSetId),
                      SdkCall("DeleteRecordSet", <<projectId, zoneId, recordSetId>>,
                              NoPayload, delete))>>
           d1 == IF delete.err THEN LogAndAddError(diags, "Error deleting recordset") ELSE diags
           c2 == Append(c1, In(Background,
                            WaitCall("DeleteRecordSetWaitHandler",
                                     <<projectId, zoneId, recordSetId>>, 1, delWait)))
       IN IF delWait.err
          THEN Response("Delete", LogAndAddError(d1, "Error deleting record set"), c2, "none")
          ELSE Response("Delete", d1, c2, "none")

DnsDelete(stateOk, state, delete, delWait) ==
  LET diags == GetDiags(stateOk, "State.Get")
  IN IF HasError(diags) THEN Response("Delete", diags, <<>>, "none")
     ELSE
       LET projectId == ValueString(state.ProjectId)
           zoneId == ValueString(state.ZoneId)
           recordSetId == ValueString(state.RecordSetId)
           c1 == <<In(RecordSetContext(projectId, zoneId, recordSetId),
                      SdkCall("DeleteRecordSet", <<projectId, zoneId, recordSetId>>,
                              NoPayload, delete))>>
           d1 == IF delete.err THEN LogAndAddError(diags, "Error deleting recordset") ELSE diags
           c2 == Append(c1, In(RecordSetContext(projectId, zoneId, recordSetId),
                            WaitCall("DeleteRecordSetWaitHandler",
                                     <<projectId, zoneId, recordSetId>>, 1, delWait)))
       IN IF delWait.err
          THEN Response("Delete", LogAndAddError(d1, "Error deleting record set"), c2, "none")
          ELSE Response("Delete", d1, c2, "none")

\* Mutation: empty parts are let through.
DnsImportStateEmptyParts(id) ==
  LET idParts == Split(id)
  IN IF Len(idParts) # 3
     THEN Response("ImportState", AddError(NoDiags, "Unexpected Import Identifier"), <<>>, "none")
     ELSE [Response("ImportState", NoDiags, <<>>, "none") EXCEPT
             !.setAttrs = SetAttribute(SetAttribute(SetAttribute(<<>>,
                                         "project_id", idParts[1]),
                                         "zone_id", idParts[2]),
                                         "record_set_id", idParts[3])]

DnsImportState(id) ==
  LET idParts == Split(id)
  IN IF Len(idParts) # 3 \/ idParts[1] = <<>> \/ idParts[2] = <<>> \/ idParts[3] = <<>>
     THEN Response("ImportState", AddError(NoDiags, "Unexpected Import Identifier"), <<>>, "none")
     ELSE [Response("ImportState", NoDiags, <<>>, "none") EXCEPT
             !.setAttrs = SetAttribute(SetAttribute(SetAttribute(<<>>,
                                         "project_id", idParts[1]),
                                         "zone_id", idParts[2]),
                                         "record_set_id", idParts[3])]

(***************************************************************************)
(* Read of the DNS record set data source.                                 *)
(***************************************************************************)
\* Mutation: the zone and the record set change places in the request.
DataSourceReadRequestSwapped(calls, projectId, zoneId, recordSetId, get) ==
  Append(calls, In(RecordSetContext(projectId, zoneId, recordSetId),
                   SdkCall("GetRecordSet", <<projectId, recordSetId, zoneId>>, NoPayload, get)))

DataSourceReadRequest(calls, projectId, zoneId, recordSetId, get) ==
  Append(calls, In(RecordSetContext(projectId, zoneId, recordSetId),
                   SdkCall("GetRecordSet", <<projectId, zoneId, recordSetId>>, NoPayload, get)))

\* Mutation: the data source leaves the comment as the configuration had it.
DataSourceReadStaleComment(configOk, config, get) ==
  LET diags == GetDiags(configOk, "Config.Get")
  IN IF HasError(diags) THEN Response("Read", diags, <<>>, "none")
     ELSE
       LET c1 == DataSourceReadRequest(<<>>, ValueString(config.ProjectId),
                                       ValueString(config.ZoneId), ValueString(config.RecordSetId), get)
       IN IF get.err
          THEN Response("Read", LogAndAddError(diags, "Unable to Read record set"), c1, "none")
          ELSE
            LET mf == DnsMapFields(get.resp, config)
            IN IF mf.err # ""
               THEN Response("Read", LogAndAddError(diags, "Mapping fields"), c1, "err")
               ELSE StateSet("Read", diags, c1, [mf.model EXCEPT !.Comment = config.Comment])

DataSourceRead(configOk, config, get) ==
  LET diags == GetDiags(configOk, "Config.Get")
  IN IF HasError(diags) THEN Response("Read", diags, <<>>, "none")
     ELSE
       LET projectId == ValueString(config.ProjectId)
           zoneId == ValueString(config.ZoneId)
           recordSetId == ValueString(config.RecordSetId)
           c1 == DataSourceReadRequest(<<>>, projectId, zoneId, recordSetId, get)
       IN IF get.err
          THEN Response("Read", LogAndAddError(diags, "Unable to Read record set"), c1, "none")
          ELSE
            LET mf == DnsMapFields(get.resp, config)
            IN IF mf.err # ""
               THEN Response("Read", LogAndAddError(diags, "Mapping fields"), c1, "err")
               ELSE StateSet("Read", diags, c1, mf.model)

(***************************************************************************)
(* The destroy check of the PostgreSQL acceptance test.  It makes a client *)
(* of its own and works on context.Background(); what it returns is the    *)
(* field err of its result ("" for nil).  Inputs: the resources of the     *)
(* Terraform state, whether NewAPIClient fails, the answer of GetInstances *)
(* and the instance ids on which DeleteInstance resp. the delete wait      *)
(* handler fails.                                                          *)
(***************************************************************************)
InstanceTypeDelete == "delete"
InstanceStateSuccess == "succeeded"

Contains(s, sub) ==
  \E i \in 1..(Len(s) - Len(sub) + 1) : SubSeq(s, i, i + Len(sub) - 1) = sub

LastOperation(type, state, description) ==
  [Type |-> type, State |-> state, Description |-> description]

PostgresInstance(instanceId, lastOperation) ==
  [InstanceId |-> instanceId, LastOperation |-> lastOperation]

CheckResult(err, calls, panicked) ==
  [op |-> "CheckDestroy", diags |-> NoDiags, calls |-> calls, stateSet |-> FALSE,
   state |-> NoModel, setAttrs |-> <<>>, panicked |-> panicked, mapped |-> "none",
   err |-> err]

\* Mutation: a delete counts as successful whatever its state.
checkInstanceDeleteSuccessAnyState(i) ==
  IF ~i.LastOperation.Type.some THEN [panicked |-> TRUE, ok |-> FALSE]
  ELSE IF i.LastOperation.Type.v # InstanceTypeDelete THEN [panicked |-> FALSE, ok |-> FALSE]
  ELSE IF ~i.LastOperation.State.some THEN [panicked |-> TRUE, ok |-> FALSE]
  ELSE IF ~i.LastOperation.Description.some THEN [panicked |-> TRUE, ok |-> FALSE]
  ELSE IF \/ Contains(i.LastOperation.Description.v, <<"D", "e", "l", "e", "t", "e", "F", "a", "i", "l", "e", "d">>)
          \/ Contains(i.LastOperation.Description.v, <<"f", "a", "i", "l", "e", "d">>)
  THEN [panicked |-> FALSE, ok |-> FALSE]
  ELSE [panicked |-> FALSE, ok |-> TRUE]

checkInstanceDeleteSuccess(i) ==
  IF ~i.LastOperation.Type.some THEN [panicked |-> TRUE, ok |-> FALSE]
  ELSE IF i.LastOperation.Type.v # InstanceTypeDelete THEN [panicked |-> FALSE, ok |-> FALSE]
  ELSE IF ~i.LastOperation.State.some THEN [panicked |-> TRUE, ok |-> FALSE]
  ELSE IF i.LastOperation.State.v # InstanceStateSuccess THEN [panicked |-> FALSE, ok |-> FALSE]
  ELSE IF ~i.LastOperation.Description.some THEN [panicked |-> TRUE, ok |-> FALSE]
  ELSE IF \/ Contains(i.LastOperation.Description.v, <<"D", "e", "l", "e", "t", "e", "F", "a", "i", "l", "e", "d">>)
          \/ Contains(i.LastOperation.Description.v, <<"f", "a", "i", "l", "e", "d">>)
  THEN [panicked |-> FALSE, ok |-> FALSE]
  ELSE [panicked |-> FALSE, ok |-> TRUE]

\* The loop over the resources of the state: the second part of each
\* instance's id; [panicked, ids].
RECURSIVE InstancesToDestroy(_, _, _)
InstancesToDestroy(resources, n, ids) ==
  IF n > Len(resources) THEN [panicked |-> FALSE, ids |-> ids]
  ELSE IF resources[n].Type # "stackit_postgresql_instance"
  THEN InstancesToDestroy(resources, n + 1, ids)
  ELSE LET parts == Split(resources[n].ID)
       IN IF Len(parts) < 2 THEN [panicked |-> TRUE, ids |-> ids]
          ELSE InstancesToDestroy(resources, n + 1, Append(ids, parts[2]))

\* The loop over the instances of the project, from the n-th on.
RECURSIVE DestroyInstances(_, _, _, _, _, _, _)
DestroyInstances(instances, n, toDestroy, projectId, deleteErrs, waitErrs, calls) ==
  IF n > Len(instances) THEN CheckResult("", calls, FALSE)
  ELSE
    LET i == instances[n]
        rest(c) == DestroyInstances(instances, n + 1, toDestroy, projectId, deleteErrs, waitErrs, c)
    IN IF ~i.InstanceId.some THEN rest(calls)
       ELSE IF ~(\E k \in 1..Len(toDestroy) : toDestroy[k] = i.InstanceId.v) THEN rest(calls)
       ELSE
         LET success == checkInstanceDeleteSuccess(i)
             id == i.InstanceId.v
             c1 == Append(calls, In(Background,
                            SdkCall("DeleteInstance", <<projectId, id>>, NoPayload,
                                    [err |-> id \in deleteErrs])))
             \* no SetTimeout: the wait handler keeps its default
             c2 == Append(c1, In(Background,
                            WaitCall("DeleteInstanceWaitHandler", <<projectId, id>>, 0,
                                     [err |-> id \in waitErrs])))
         IN IF success.panicked THEN CheckResult("", calls, TRUE)
            ELSE IF success.ok THEN rest(calls)
            ELSE IF id \in deleteErrs
            THEN CheckResult("destroying instance during CheckDestroy", c1, FALSE)
            ELSE IF id \in waitErrs
            THEN CheckResult("destroying instance during CheckDestroy: waiting for deletion", c2, FALSE)
            ELSE rest(c2)

testAccCheckPostgreSQLDestroy(resources, projectId, newClientErr, getInstances, deleteErrs, waitErrs) ==
  IF newClientErr THEN CheckResult("creating client", <<>>, FALSE)
  ELSE
    LET ids == InstancesToDestroy(resources, 1, <<>>)
        c1 == <<In(Background, SdkCall("GetInstances", <<projectId>>, NoPayload, getInstances))>>
    IN IF ids.panicked THEN CheckResult("", <<>>, TRUE)
       ELSE IF getInstances.err THEN CheckResult("getting instancesResp", c1, FALSE)
       ELSE IF ~getInstances.instances.some THEN CheckResult("", c1, TRUE)
       ELSE DestroyInstances(getInstances.instances.v, 1, ids.ids, projectId,
                             deleteErrs, waitErrs, c1)

(***************************************************************************)
(* Configure.  providerData is "nil", "other" (not a core.ProviderData) or *)
(* a core.ProviderData with its custom endpoint; newClientErr is whether   *)
(* the SDK's NewAPIClient fails.  A client is the list of the options it   *)
(* was built with.                                                         *)
(***************************************************************************)
NoClient == [configured |-> FALSE, options |-> <<>>]
NewAPIClient(options) == [configured |-> TRUE, options |-> options]

ProviderData(endpoint) == [type |-> "ProviderData", customEndpoint |-> endpoint]
NilProviderData == [type |-> "nil", customEndpoint |-> <<>>]
OtherProviderData == [type |-> "other", customEndpoint |-> <<>>]

\* Mutation: the client is installed although its constructor failed.
ConfigureInstallsFailedClient(old, providerData, newClientErr, fallback, unexpected) ==
  IF providerData.type = "nil"
  THEN [client |-> old, resp |-> Response("Configure", NoDiags, <<>>, "none")]
  ELSE IF providerData.type # "ProviderData"
  THEN [client |-> old, resp |-> Response("Configure", AddError(NoDiags, unexpected), <<>>, "none")]
  ELSE
    LET apiClient == IF providerData.customEndpoint # <<>>
                     THEN NewAPIClient(<<"WithCustomAuth", "WithEndpoint">>)
                     ELSE NewAPIClient(fallback)
    IN IF newClientErr
       THEN [client |-> apiClient,
             resp |-> Response("Configure", AddError(NoDiags, "Could not Configure API Client"), <<>>, "none")]
       ELSE [client |-> apiClient, resp |-> Response("Configure", NoDiags, <<>>, "none")]

Configure(old, providerData, newClientErr, fallback, unexpected) ==
  IF providerData.type = "nil"
  THEN [client |-> old, resp |-> Response("Configure", NoDiags, <<>>, "none")]
  ELSE IF providerData.type # "ProviderData"
  THEN [client |-> old, resp |-> Response("Configure", AddError(NoDiags, unexpected), <<>>, "none")]
  ELSE
    LET apiClient == IF providerData.customEndpoint # <<>>
                     THEN NewAPIClient(<<"WithCustomAuth", "WithEndpoint">>)
                     ELSE NewAPIClient(fallback)
    IN IF newClientErr
       THEN [client |-> old,
             resp |-> Response("Configure", AddError(NoDiags, "Could not Configure API Client"), <<>>, "none")]
       ELSE [client |-> apiClient, resp |-> Response("Configure", NoDiags, <<>>, "none")]

ArgusConfigure(old, providerData, newClientErr) ==
  Configure(old, providerData, newClientErr, <<"WithCustomAuth", "WithRegion">>,
            "Unexpected Resource Configure Type")

DnsConfigure(old, providerData, newClientErr) ==
  Configure(old, providerData, newClientErr, <<"WithCustomAuth">>,
            "Unexpected Resource Configure Type")

DataSourceConfigure(old, providerData, newClientErr) ==
  Configure(old, providerData, newClientErr, <<"WithCustomAuth">>,
            "Unexpected Data Source Configure Type")

(***************************************************************************)
(* The requests and SDK answers the handlers are run on.                   *)
(***************************************************************************)
ProviderDatas == {NilProviderData, OtherProviderData, ProviderData(<<>>), ProviderData(<<"e">>)}

ImportIds == StrsUpTo(MaxIdLen)

ProjectA == <<"a">>
ZoneB == <<"b">>
Url == <<"u">>
SomeParameters == <<<<"k", "v">>>>
Errs == {[err |-> TRUE], [err |-> FALSE]}

\* Identifiers as the API may return them: absent, empty, plain, or with a separator in it.
ResponseIds == {NilStr, Ptr(<<>>), Ptr(<<"b">>), Ptr(<<"a", Separator, "b">>)}

PlanNames == {<<"x">>, <<"y">>}

PlanEntries ==
  {[Name |-> NilStr, PlanId |-> Ptr(<<"1">>)],
   [Name |-> Ptr(<<"X">>), PlanId |-> NilStr],
   [Name |-> Ptr(<<"X">>), PlanId |-> Ptr(<<"1">>)],
   [Name |-> Ptr(<<"x">>), PlanId |-> Ptr(<<"2">>)],
   [Name |-> Ptr(<<"x">>), PlanId |-> Ptr(<<>>)],
   [Name |-> Ptr(<<"y">>), PlanId |-> Ptr(<<"1">>)]}

RECURSIVE PlanLists(_)
PlanLists(n) ==
  IF n = 0 THEN {<<>>}
  ELSE PlanLists(n - 1) \cup {Append(l, e) : l \in {m \in PlanLists(n - 1) : Len(m) = n - 1},
                                             e \in PlanEntries}

GetPlansAnswers ==
  {[err |-> TRUE, plans |-> NilMap], [err |-> FALSE, plans |-> NilMap]}
  \cup {[err |-> FALSE, plans |-> Ptr(l)] : l \in PlanLists(MaxPlans)}

ArgusInstances ==
  {NilInstance,
   Ptr(ArgusInstance(Ptr(90), Ptr(30), Ptr(7), Ptr(Url), Ptr(TRUE))),
   Ptr(ArgusInstance(Ptr(90), Ptr(30), Ptr(7), NilStr, NilBool)),
   Ptr(ArgusInstance(NilInt, Ptr(30), Ptr(7), Ptr(Url), Ptr(TRUE))),
   Ptr(ArgusInstance(Ptr(90), NilInt, Ptr(7), Ptr(Url), Ptr(TRUE))),
   Ptr(ArgusInstance(Ptr(90), Ptr(30), NilInt, Ptr(Url), Ptr(TRUE)))}

ArgusResponses ==
  {Ptr(ArgusInstanceResponse(id, Ptr(<<"x">>), Ptr(<<"1">>), Ptr(<<"n">>), Ptr(SomeParameters),
                             Ptr(TRUE), Ptr(Url), i)) : id \in ResponseIds, i \in ArgusInstances}
  \cup {Ptr(ArgusInstanceResponse(id, NilStr, NilStr, NilStr, NilMap, NilBool, NilStr, i)) :
          id \in ResponseIds, i \in ArgusInstances}

ArgusWaitAnswers ==
  {[err |-> TRUE, typeOk |-> FALSE, resp |-> NilInstanceResponse],
   [err |-> FALSE, typeOk |-> FALSE, resp |-> NilInstanceResponse],
   [err |-> FALSE, typeOk |-> TRUE, resp |-> NilInstanceResponse]}
  \cup {[err |-> FALSE, typeOk |-> TRUE, resp |-> r] : r \in ArgusResponses}

ArgusGetAnswers ==
  {[err |-> TRUE, resp |-> NilInstanceResponse], [err |-> FALSE, resp |-> NilInstanceResponse]}
  \cup {[err |-> FALSE, resp |-> r] : r \in ArgusResponses}

ArgusCreateAnswers ==
  {[err |-> TRUE, instanceId |-> NilStr]} \cup {[err |-> FALSE, instanceId |-> id] : id \in ResponseIds}

\* Plans of a create: the Computed attributes are unknown.
ArgusCreatePlans ==
  {ArgusModel(StringValue(ProjectA), StringUnknown, StringValue(<<"n">>), StringValue(pn),
              StringUnknown, ps, StringUnknown, "unknown") :
     pn \in PlanNames, ps \in {MapUnknown, MapValue(SomeParameters)}}

\* Plans of an update: id, instance_id, plan_id and parameters keep the prior state's value.
ArgusUpdatePlans ==
  {ArgusModel(StringValue(ProjectA), StringValue(<<"b">>), StringValue(<<"n">>), StringValue(pn),
              StringValue(<<"1">>), MapValue(SomeParameters),
              StringValue(<<"a", Separator, "b">>), "unknown") : pn \in PlanNames}

\* Prior states: as ImportState leaves it, and as Create wrote it.
ArgusStates ==
  {ArgusModel(StringValue(ProjectA), StringValue(<<"b">>), StringNull, StringNull,
              StringNull, MapNull, StringNull, "null")}
  \cup {ArgusMapFields(r, p).model :
          r \in {Ptr(ArgusInstanceResponse(Ptr(<<"b">>), Ptr(<<"x">>), Ptr(<<"1">>), Ptr(<<"n">>),
                                           Ptr(SomeParameters), Ptr(TRUE), Ptr(Url), i)) :
                   i \in {NilInstance, Ptr(ArgusInstance(Ptr(90), Ptr(30), Ptr(7), Ptr(Url), Ptr(TRUE)))}},
          p \in {q \in ArgusCreatePlans : q.PlanName = StringValue(<<"x">>)}}

DnsRecordSets ==
  {Ptr(DnsRecordSet(id, Ptr(<<Ptr(<<"1">>), NilStr>>), Ptr(TRUE), Ptr(<<"c">>), Ptr(<<"e">>),
                    Ptr(<<"n">>), Ptr(<<"s">>), Ptr(30), Ptr(<<"A">>))) : id \in ResponseIds}
  \cup {Ptr(DnsRecordSet(id, NilMap, NilBool, NilStr, NilStr, NilStr, NilStr, NilInt, NilStr)) :
          id \in ResponseIds}

\* A RecordSetResponse the SDK returned without error is not nil, its Rrset may be.
DnsResponses == {Ptr([Rrset |-> rs]) : rs \in DnsRecordSets \cup {NilRrset}}

DnsCreateAnswers ==
  {[err |-> TRUE, resp |-> NilRecordSetResponse]} \cup {[err |-> FALSE, resp |-> r] : r \in DnsResponses}

DnsGetAnswers ==
  {[err |-> TRUE, resp |-> NilRecordSetResponse], [err |-> FALSE, resp |-> NilRecordSetResponse]}
  \cup {[err |-> FALSE, resp |-> r] : r \in DnsResponses}

DnsWaitAnswers ==
  {[err |-> TRUE, typeOk |-> FALSE, resp |-> NilRecordSetResponse],
   [err |-> FALSE, typeOk |-> FALSE, resp |-> NilRecordSetResponse],
   [err |-> FALSE, typeOk |-> TRUE, resp |-> NilRecordSetResponse]}
  \cup {[err |-> FALSE, typeOk |-> TRUE, resp |-> r] : r \in DnsResponses}

SomeRecords == ListValue(<<StringValue(<<"1">>)>>)

DnsCreatePlans ==
  {DnsModel(StringUnknown, StringUnknown, StringValue(ZoneB), StringValue(ProjectA),
            [k |-> "known", v |-> TRUE], StringUnknown, StringValue(<<"n">>), SomeRecords,
            Int64Unknown, StringUnknown, StringUnknown, StringUnknown),
   DnsModel(StringUnknown, StringUnknown, StringValue(ZoneB), StringValue(ProjectA),
            [k |-> "known", v |-> FALSE], StringValue(<<"c">>), StringValue(<<"n">>), SomeRecords,
            Int64Value(30), StringValue(<<"A">>), StringUnknown, StringUnknown)}

DnsUpdatePlans ==
  {DnsModel(StringValue(<<"a", Separator, "b", Separator, "a">>), StringValue(<<"a">>),
            StringValue(ZoneB), StringValue(ProjectA),
            [k |-> "known", v |-> TRUE], c, StringValue(<<"n">>), SomeRecords,
            Int64Value(30), StringValue(<<"A">>), StringUnknown, StringUnknown) :
     c \in {StringUnknown, StringValue(<<"c">>)}}

DnsStates ==
  {DnsModel(StringNull, StringValue(<<"a">>), StringValue(ZoneB), StringValue(ProjectA),
            BoolNull, StringNull, StringNull, ListNull, Int64Null, StringNull, StringNull, StringNull)}
  \cup {DnsMapFields(Ptr([Rrset |-> rs]), p).model :
          rs \in {r \in DnsRecordSets : r.v.Id = Ptr(<<"b">>)}, p \in DnsCreatePlans}

\* Configurations of the data source: the three identifiers are Required, the rest null.
DataSourceConfigs ==
  {DnsModel(StringNull, StringValue(r), StringValue(ZoneB), StringValue(ProjectA),
            BoolNull, StringNull, StringNull, ListNull, Int64Null, StringNull, StringNull, StringNull) :
     r \in {<<"a">>, <<"b">>}}

\* The acceptance test: its project, the resources its state may hold, and
\* what the project's instance list may look like.
TestProjectId == ProjectA

InstanceIds == {<<"b">>, <<"c">>}

StateResource(type, id) == [Type |-> type, ID |-> id]

StateResources ==
  LET b == StateResource("stackit_postgresql_instance", <<"a", Separator, "b">>)
      c == StateResource("stackit_postgresql_instance", <<"a", Separator, "c">>)
      noSeparator == StateResource("stackit_postgresql_instance", <<"a", "b">>)
      credentials == StateResource("stackit_postgresql_credentials",
                                   <<"a", Separator, "b", Separator, "d">>)
  IN {<<>>, <<b>>, <<credentials, b>>, <<b, c>>, <<credentials>>, <<noSeparator>>}

LastOperations ==
  {LastOperation(Ptr("create"), Ptr(InstanceStateSuccess), Ptr(<<"o", "k">>)),
   LastOperation(Ptr(InstanceTypeDelete), Ptr(InstanceStateSuccess), Ptr(<<"o", "k">>)),
   LastOperation(Ptr(InstanceTypeDelete), Ptr("failed"), Ptr(<<"o", "k">>)),
   LastOperation(Ptr(InstanceTypeDelete), Ptr(InstanceStateSuccess),
                 Ptr(<<"i", "t", " ", "f", "a", "i", "l", "e", "d">>)),
   LastOperation(Ptr(InstanceTypeDelete), Ptr(InstanceStateSuccess),
                 Ptr(<<"D", "e", "l", "e", "t", "e", "F", "a", "i", "l", "e", "d">>)),
   LastOperation(NilStr, Ptr(InstanceStateSuccess), Ptr(<<"o", "k">>)),
   LastOperation(Ptr(InstanceTypeDelete), NilStr, Ptr(<<"o", "k">>)),
   LastOperation(Ptr(InstanceTypeDelete), Ptr(InstanceStateSuccess), NilStr)}

PostgresInstances ==
  {PostgresInstance(Ptr(<<"b">>), op) : op \in LastOperations}
  \cup {PostgresInstance(id, op) :
          id \in {NilStr, Ptr(<<"c">>)},
          op \in {LastOperation(Ptr("create"), Ptr(InstanceStateSuccess), Ptr(<<"o", "k">>)),
                  LastOperation(Ptr(InstanceTypeDelete), Ptr(InstanceStateSuccess), Ptr(<<"o", "k">>))}}

RECURSIVE InstanceLists(_)
InstanceLists(n) ==
  IF n = 0 THEN {<<>>}
  ELSE InstanceLists(n - 1) \cup {Append(l, e) : l \in {m \in InstanceLists(n - 1) : Len(m) = n - 1},
                                                 e \in PostgresInstances}

GetInstancesAnswers ==
  {[err |-> TRUE, instances |-> NilMap], [err |-> FALSE, instances |-> NilMap]}
  \cup {[err |-> FALSE, instances |-> Ptr(l)] : l \in InstanceLists(MaxInstances)}

(***************************************************************************)
(* The state machine.                                                      *)
(*   kind    which adapter the object is                                   *)
(*   client  the object's client field                                     *)
(*   pc      "idle", "done" (a handler returned, the framework holds its   *)
(*           response) or "crashed" (a handler panicked)                   *)
(*   req     the request of the handler that ran last                      *)
(*   resp    its response                                                  *)
(* The framework configures an adapter before it calls Create, Read,       *)
(* Update or Delete on it, so those run with a client.  An SDK answer that *)
(* the handler never gets to see is not enumerated.                        *)
(***************************************************************************)
Kinds == {"argus", "dns", "dnsData", "postgresqlTest"}

NoRequest == [op |-> "none"]
Request(op, ok, model) == [op |-> op, ok |-> ok, model |-> model]

Init ==
  /\ kind \in Kinds
  /\ client = NoClient
  /\ pc = "idle"
  /\ req = NoRequest
  /\ resp = NoResponse

Returned(request, response) ==
  /\ req' = request
  /\ resp' = response
  /\ pc' = IF response.panicked THEN "crashed" ELSE "done"

Usable(getPlans) == getPlans.err \/ getPlans.plans.some

InstanceResourceConfigure ==
  /\ pc = "idle" /\ kind = "argus"
  /\ \E pd \in ProviderDatas, e \in BOOLEAN :
       LET c == ArgusConfigure(client, pd, e)
       IN /\ client' = c.client
          /\ Returned([op |-> "Configure", providerData |-> pd, newClientErr |-> e], c.resp)
  /\ UNCHANGED kind

RecordSetResourceConfigure ==
  /\ pc = "idle" /\ kind = "dns"
  /\ \E pd \in ProviderDatas, e \in BOOLEAN :
       LET c == DnsConfigure(client, pd, e)
       IN /\ client' = c.client
          /\ Returned([op |-> "Configure", providerData |-> pd, newClientErr |-> e], c.resp)
  /\ UNCHANGED kind

RecordSetDataSourceConfigure ==
  /\ pc = "idle" /\ kind = "dnsData"
  /\ \E pd \in ProviderDatas, e \in BOOLEAN :
       LET c == DataSourceConfigure(client, pd, e)
       IN /\ client' = c.client
          /\ Returned([op |-> "Configure", providerData |-> pd, newClientErr |-> e], c.resp)
  /\ UNCHANGED kind

InstanceResourceCreate ==
  /\ pc = "idle" /\ kind = "argus" /\ client.configured
  /\ \E ok \in BOOLEAN, plan \in ArgusCreatePlans :
       \E gp \in IF ok THEN GetPlansAnswers ELSE {[err |-> TRUE, plans |-> NilMap]} :
         \E cr \in IF ok /\ Usable(gp) THEN ArgusCreateAnswers
                   ELSE {[err |-> TRUE, instanceId |-> NilStr]} :
           \E wr \in IF ~cr.err /\ cr.instanceId.some /\ cr.instanceId.v # <<>>
                     THEN ArgusWaitAnswers
                     ELSE {[err |-> TRUE, typeOk |-> FALSE, resp |-> NilInstanceResponse]} :
             Returned(Request("Create", ok, plan), ArgusCreate(ok, plan, gp, cr, wr))
  /\ UNCHANGED <<kind, client>>

InstanceResourceRead ==
  /\ pc = "idle" /\ kind = "argus" /\ client.configured
  /\ \E ok \in BOOLEAN, state \in ArgusStates :
       \E get \in IF ok THEN ArgusGetAnswers ELSE {[err |-> TRUE, resp |-> NilInstanceResponse]} :
         Returned(Request("Read", ok, state), ArgusRead(ok, state, get))
  /\ UNCHANGED <<kind, client>>

InstanceResourceUpdate ==
  /\ pc = "idle" /\ kind = "argus" /\ client.configured
  /\ \E ok \in BOOLEAN, plan \in ArgusUpdatePlans :
       \E gp \in IF ok THEN GetPlansAnswers ELSE {[err |-> TRUE, plans |-> NilMap]} :
         \E up \in IF ok /\ Usable(gp) THEN Errs ELSE {[err |-> TRUE]} :
           \E wr \in IF ~up.err THEN ArgusWaitAnswers
                     ELSE {[err |-> TRUE, typeOk |-> FALSE, resp |-> NilInstanceResponse]} :
             Returned(Request("Update", ok, plan), ArgusUpdate(ok, plan, gp, up, wr))
  /\ UNCHANGED <<kind, client>>

InstanceResourceDelete ==
  /\ pc = "idle" /\ kind = "argus" /\ client.configured
  /\ \E ok \in BOOLEAN, state \in ArgusStates :
       \E del \in IF ok THEN Errs ELSE {[err |-> TRUE]} :
         \E dw \in IF ~del.err THEN Errs ELSE {[err |-> TRUE]} :
           Returned(Request("Delete", ok, state), ArgusDelete(ok, state, del, dw))
  /\ UNCHANGED <<kind, client>>

\* Mutation: ImportState clears the object's client.
InstanceResourceImportStateDropsClient ==
  /\ pc = "idle" /\ kind = "argus"
  /\ \E id \in ImportIds :
       Returned([op |-> "ImportState", id |-> id], ArgusImportState(id))
  /\ client' = NoClient
  /\ UNCHANGED kind

InstanceResourceImportState ==
  /\ pc = "idle" /\ kind = "argus"
  /\ \E id \in ImportIds :
       Returned([op |-> "ImportState", id |-> id], ArgusImportState(id))
  /\ UNCHANGED <<kind, client>>

RecordSetResourceCreate ==
  /\ pc = "idle" /\ kind = "dns" /\ client.configured
  /\ \E ok \in BOOLEAN, plan \in DnsCreatePlans :
       \E cr \in IF ok THEN DnsCreateAnswers ELSE {[err |-> TRUE, resp |-> NilRecordSetResponse]} :
         \E wr \in IF ~cr.err /\ cr.resp.v.Rrset.some /\ cr.resp.v.Rrset.v.Id.some
                   THEN DnsWaitAnswers
                   ELSE {[err |-> TRUE, typeOk |-> FALSE, resp |-> NilRecordSetResponse]} :
           Returned(Request("Create", ok, plan), DnsCreate(ok, plan, cr, wr))
  /\ UNCHANGED <<kind, client>>

RecordSetResourceRead ==
  /\ pc = "idle" /\ kind = "dns" /\ client.configured
  /\ \E ok \in BOOLEAN, state \in DnsStates :
       \E get \in IF ok THEN DnsGetAnswers ELSE {[err |-> TRUE, resp |-> NilRecordSetResponse]} :
         Returned(Request("Read", ok, state), DnsRead(ok, state, get))
  /\ UNCHANGED <<kind, client>>

RecordSetResourceUpdate ==
  /\ pc = "idle" /\ kind = "dns" /\ client.configured
  /\ \E ok \in BOOLEAN, plan \in DnsUpdatePlans :
       \E up \in IF ok THEN Errs ELSE {[err |-> TRUE]} :
         \E wr \in IF ~up.err THEN DnsWaitAnswers
                   ELSE {[err |-> TRUE, typeOk |-> FALSE, resp |-> NilRecordSetResponse]} :
           \E get \in IF ~wr.err /\ wr.typeOk THEN DnsGetAnswers
                      ELSE {[err |-> TRUE, resp |-> NilRecordSetResponse]} :
             Returned(Request("Update", ok, plan), DnsUpdate(ok, plan, up, wr, get))
  /\ UNCHANGED <<kind, client>>

RecordSetResourceDelete ==
  /\ pc = "idle" /\ kind = "dns" /\ client.configured
  /\ \E ok \in BOOLEAN, state \in DnsStates :
       \E del \in IF ok THEN Errs ELSE {[err |-> TRUE]} :
         \E dw \in IF ok THEN Errs ELSE {[err |-> TRUE]} :
           Returned(Request("Delete", ok, state), DnsDelete(ok, state, del, dw))
  /\ UNCHANGED <<kind, client>>

RecordSetResourceImportState ==
  /\ pc = "idle" /\ kind = "dns"
  /\ \E id \in ImportIds :
       Returned([op |-> "ImportState", id |-> id], DnsImportState(id))
  /\ UNCHANGED <<kind, client>>

RecordSetDataSourceRead ==
  /\ pc = "idle" /\ kind = "dnsData" /\ client.configured
  /\ \E ok \in BOOLEAN, config \in DataSourceConfigs :
       \E get \in IF ok THEN DnsGetAnswers ELSE {[err |-> TRUE, resp |-> NilRecordSetResponse]} :
         Returned(Request("Read", ok, config), DataSourceRead(ok, config, get))
  /\ UNCHANGED <<kind, client>>

\* The test framework runs the destroy check after the resources were destroyed.
CheckDestroy ==
  /\ pc = "idle" /\ kind = "postgresqlTest"
  /\ \E rs \in StateResources, e \in BOOLEAN :
       \E gi \in IF e THEN {[err |-> TRUE, instances |-> NilMap]} ELSE GetInstancesAnswers :
         \E de \in IF gi.err \/ ~gi.instances.some THEN {{}} ELSE SUBSET InstanceIds :
           \E we \in IF gi.err \/ ~gi.instances.some THEN {{}} ELSE SUBSET InstanceIds :
             Returned([op |-> "CheckDestroy", resources |-> rs, newClientErr |-> e,
                       getInstances |-> gi, deleteErrs |-> de, waitErrs |-> we],
                      testAccCheckPostgreSQLDestroy(rs, TestProjectId, e, gi, de, we))
  /\ UNCHANGED <<kind, client>>

\* The framework has taken the response; the object is ready for the next call.
Respond ==
  /\ pc = "done"
  /\ pc' = "idle"
  /\ req' = NoRequest
  /\ resp' = NoResponse
  /\ UNCHANGED <<kind, client>>

Next ==
  \/ InstanceResourceConfigure
  \/ InstanceResourceCreate
  \/ InstanceResourceRead
  \/ InstanceResourceUpdate
  \/ InstanceResourceDelete
  \/ InstanceResourceImportState
  \/ RecordSetResourceConfigure
  \/ RecordSetResourceCreate
  \/ RecordSetResourceRead
  \/ RecordSetResourceUpdate
  \/ RecordSetResourceDelete
  \/ RecordSetResourceImportState
  \/ RecordSetDataSourceConfigure
  \/ RecordSetDataSourceRead
  \/ CheckDestroy
  \/ Respond

Spec == Init /\ [][Next]_vars

TypeOK ==
  /\ kind \in Kinds
  /\ pc \in {"idle", "done", "crashed"}
  /\ client.configured \in BOOLEAN
  /\ resp.stateSet \in BOOLEAN
  /\ resp.panicked \in BOOLEAN

(***************************************************************************)
(* Properties.                                                             *)
(***************************************************************************)
Plain(s) == s # <<>> /\ \A i \in 1..Len(s) : s[i] # Separator

Before(s, i) == SubSeq(s, 1, i - 1)
Between(s, i, j) == SubSeq(s, i + 1, j - 1)
After(s, i) == SubSeq(s, i + 1, Len(s))

\* The positions at which id is cut into two, resp. three, non-empty parts without a separator.
TwoParts(id) ==
  {i \in 1..Len(id) : id[i] = Separator /\ Plain(Before(id, i)) /\ Plain(After(id, i))}

ThreeParts(id) ==
  {c \in (1..Len(id)) \X (1..Len(id)) :
     /\ c[1] < c[2] /\ id[c[1]] = Separator /\ id[c[2]] = Separator
     /\ Plain(Before(id, c[1])) /\ Plain(Between(id, c[1], c[2])) /\ Plain(After(id, c[2]))}

Imported == pc = "done" /\ req.op = "ImportState"

Attr(path, value) == [path |-> path, value |-> value]

\* C1: ImportState of an identifier made of exactly three (DNS record set)
\* resp. two (Argus instance) non-empty parts joined by the separator sets
\* project_id, zone_id, record_set_id resp. project_id, instance_id to the
\* parts, in that order, and adds no error diagnostic.
C1_ImportStateAccepts ==
  Imported =>
    /\ kind = "argus" =>
         \A i \in TwoParts(req.id) :
           /\ resp.diags = NoDiags
           /\ resp.setAttrs = <<Attr("project_id", Before(req.id, i)),
                                Attr("instance_id", After(req.id, i))>>
    /\ kind = "dns" =>
         \A c \in ThreeParts(req.id) :
           /\ resp.diags = NoDiags
           /\ resp.setAttrs = <<Attr("project_id", Before(req.id, c[1])),
                                Attr("zone_id", Between(req.id, c[1], c[2])),
                                Attr("record_set_id", After(req.id, c[2]))>>

C1_Witness ==
  /\ Imported /\ kind = "dns"
  /\ req.id = <<"a", Separator, "b", Separator, "a">>
  /\ Len(resp.setAttrs) = 3

\* C2: ImportState of an identifier that does not split into exactly the
\* expected number of parts, or that has an empty part, adds the
\* 'Unexpected Import Identifier' error and sets no state attribute.
C2_MalformedImportRejected ==
  Imported =>
    /\ (kind = "argus" /\ TwoParts(req.id) = {}) =>
         resp.diags = <<"Unexpected Import Identifier">> /\ resp.setAttrs = <<>>
    /\ (kind = "dns" /\ ThreeParts(req.id) = {}) =>
         resp.diags = <<"Unexpected Import Identifier">> /\ resp.setAttrs = <<>>

C2_Witness ==
  /\ Imported /\ kind = "dns"
  /\ req.id = <<"a", Separator, Separator, "b">>
  /\ HasError(resp.diags)

\* The answer mapFields was run on: the one of the handler's last call.
Mapped == resp.calls[Len(resp.calls)].answer.resp

\* The resource identifier mapFields joined into id: the model's if it has
\* one, else the response's.
JoinedId(modelId) ==
  IF ValueString(modelId) # <<>> THEN ValueString(modelId)
  ELSE IF kind = "argus" THEN Mapped.v.Id.v ELSE Mapped.v.Rrset.v.Id.v

WroteState == pc = "done" /\ resp.stateSet /\ kind \in {"argus", "dns"}

\* C3: the id mapFields wrote, when its components are non-empty and free
\* of the separator, is accepted by ImportState, which sets the attributes
\* to exactly the components mapFields joined.
C3_IdRoundTrip ==
  WroteState =>
    /\ (kind = "argus" /\ Plain(ValueString(req.model.ProjectId))
                       /\ Plain(JoinedId(req.model.InstanceId))) =>
         LET imp == ArgusImportState(ValueString(resp.state.Id))
         IN /\ imp.diags = NoDiags
            /\ imp.setAttrs = <<Attr("project_id", ValueString(req.model.ProjectId)),
                                Attr("instance_id", JoinedId(req.model.InstanceId))>>
    /\ (kind = "dns" /\ Plain(ValueString(req.model.ProjectId))
                     /\ Plain(ValueString(req.model.ZoneId))
                     /\ Plain(JoinedId(req.model.RecordSetId))) =>
         LET imp == DnsImportState(ValueString(resp.state.Id))
         IN /\ imp.diags = NoDiags
            /\ imp.setAttrs = <<Attr("project_id", ValueString(req.model.ProjectId)),
                                Attr("zone_id", ValueString(req.model.ZoneId)),
                                Attr("record_set_id", JoinedId(req.model.RecordSetId))>>

C3_Witness ==
  /\ WroteState /\ kind = "dns" /\ req.op = "Create"
  /\ Plain(JoinedId(req.model.RecordSetId))
  /\ resp.state.Id = StringValue(<<"a", Separator, "b", Separator, "b">>)

Failed == (\E i \in 1..Len(resp.calls) : ~resp.calls[i].ok) \/ resp.mapped = "err"

\* C4: in every Create, Read and Update (and the data source's Read), a
\* failed SDK request, wait handler or mapFields leaves an error diagnostic
\* and no state; state is written only without an error diagnostic.
C4_ErrorsSurfaced ==
  (pc = "done" /\ req.op \in {"Create", "Read", "Update"}) =>
    /\ Failed => HasError(resp.diags) /\ ~resp.stateSet
    /\ resp.stateSet => ~HasError(resp.diags)

Names == [i \in 1..Len(resp.calls) |-> resp.calls[i].name]

Finished == pc \in {"done", "crashed"} /\ req.op \in {"Create", "Read", "Update", "Delete"}

\* C5: within one invocation of Create, Read, Update or Delete every SDK
\* request and every wait handler is executed at most once; in particular
\* none is issued again after it returned an error.
C5_NoRetry ==
  Finished =>
    \A i, j \in 1..Len(resp.calls) : i # j => resp.calls[i].name # resp.calls[j].name

C5_Witness ==
  /\ Finished /\ kind = "dns" /\ req.op = "Update"
  /\ Len(resp.calls) = 3
  /\ ~resp.calls[3].ok

Requests == {i \in 1..Len(resp.calls) : ~resp.calls[i].wait}

\* C6 as stated: every Create, Read, Update and Delete calls one SDK client
\* method per invocation, the wait handler apart.
C6_OneSdkMethod == Finished => Cardinality(Requests) <= 1

Sequence ==
  IF kind = "argus"
  THEN CASE req.op = "Create" -> <<"GetPlans", "CreateInstance", "CreateInstanceWaitHandler">>
         [] req.op = "Read" -> <<"GetInstance">>
         [] req.op = "Update" -> <<"GetPlans", "UpdateInstance", "UpdateInstanceWaitHandler">>
         [] req.op = "Delete" -> <<"DeleteInstance", "DeleteInstanceWaitHandler">>
  ELSE CASE req.op = "Create" -> <<"CreateRecordSet", "CreateRecordSetWaitHandler">>
         [] req.op = "Read" -> <<"GetRecordSet">>
         [] req.op = "Update" -> <<"UpdateRecordSet", "UpdateRecordSetWaitHandler", "GetRecordSet">>
         [] req.op = "Delete" -> <<"DeleteRecordSet", "DeleteRecordSetWaitHandler">>

\* C6, amended: every Create, Read, Update and Delete issues a prefix of a
\* fixed sequence of calls.  Read, Delete and the DNS Create call one SDK
\* client method (and then the wait handler); the Argus Create and Update
\* call GetPlans and then CreateInstance / UpdateInstance; the DNS Update
\* calls UpdateRecordSet and, after the wait handler, GetRecordSet.
C6_LinearSequence ==
  Finished =>
    /\ Len(Names) <= Len(Sequence)
    /\ Names = SubSeq(Sequence, 1, Len(Names))

C6_Witness ==
  /\ Finished /\ kind = "argus" /\ req.op = "Create"
  /\ resp.stateSet
  /\ Cardinality(Requests) = 2

\* C7: mapFields and loadPlanId return, normally or with an error, for
\* every response in which optional fields are absent; no handler ends by
\* dereferencing a nil pointer.
C7_NoNilDereference == ~resp.panicked

Deleted == pc = "done" /\ req.op = "Delete" /\ kind \in {"argus", "dns"}

DeleteSucceeded ==
  /\ Len(resp.calls) = 2
  /\ resp.calls[1].name \in {"DeleteInstance", "DeleteRecordSet"} /\ resp.calls[1].ok
  /\ resp.calls[2].name \in {"DeleteInstanceWaitHandler", "DeleteRecordSetWaitHandler"}
  /\ resp.calls[2].ok

\* C8: Delete finishes without an error diagnostic exactly when the delete
\* request succeeded and the delete wait handler, run after it, returned
\* without error; every other execution carries an error diagnostic.
C8_DeleteOnlyOnSuccess ==
  Deleted => (~HasError(resp.diags) <=> DeleteSucceeded)

C8_Witness ==
  /\ Deleted /\ kind = "argus"
  /\ ~HasError(resp.diags)
  /\ DeleteSucceeded

Created == pc = "done" /\ req.op = "Create" /\ resp.stateSet

\* The identifier the create request returned.
CreatedId(call) ==
  IF kind = "argus" THEN call.answer.instanceId ELSE call.answer.resp.v.Rrset.v.Id

\* The create request succeeded, the wait handler ran next, on the
\* identifier the request returned, and returned success, and the state is
\* what mapFields made of the wait handler's result.
CreateCompleted ==
  LET n == Len(resp.calls)
      create == resp.calls[n - 1]
      wait == resp.calls[n]
  IN /\ n >= 2
     /\ create.name \in {"CreateInstance", "CreateRecordSet"} /\ create.ok
     /\ CreatedId(create).some
     /\ wait.name \in {"CreateInstanceWaitHandler", "CreateRecordSetWaitHandler"} /\ wait.ok
     /\ wait.args = IF kind = "argus"
                    THEN <<CreatedId(create).v, ValueString(req.model.ProjectId)>>
                    ELSE <<ValueString(req.model.ProjectId), ValueString(req.model.ZoneId),
                           CreatedId(create).v>>
     /\ wait.answer.typeOk
     /\ IF kind = "argus"
        THEN LET mf == ArgusMapFields(wait.answer.resp, req.model)
             IN mf.err = "" /\ ~mf.panicked /\ resp.state = mf.model
        ELSE LET mf == DnsMapFields(wait.answer.resp, req.model)
             IN mf.err = "" /\ resp.state = mf.model

\* C9 as stated: whenever Create sets state, the create request succeeded
\* and returned a non-empty identifier, the wait handler was invoked with
\* that identifier and succeeded, and mapFields succeeded on its result.
C9_CreateAfterWait ==
  Created =>
    /\ CreateCompleted
    /\ CreatedId(resp.calls[Len(resp.calls) - 1]).v # <<>>

\* C9, amended: whenever Create sets state, the create request succeeded
\* and returned an identifier (not nil; for the Argus instance also not
\* empty), the wait handler was invoked with that identifier and
\* succeeded, and mapFields succeeded on its result, in that order.
C9_CreateAfterWaitPresentId ==
  Created =>
    /\ CreateCompleted
    /\ kind = "argus" => CreatedId(resp.calls[Len(resp.calls) - 1]).v # <<>>

C9_Witness ==
  /\ Created /\ kind = "dns"
  /\ CreatedId(resp.calls[1]) = Ptr(<<"b">>)
  /\ resp.calls[2].args = <<ProjectA, ZoneB, <<"b">>>>

DataSourceHasRead == pc = "done" /\ kind = "dnsData" /\ req.op = "Read"

\* C10: Read of the DNS record set data source issues nothing but the
\* GetRecordSet request, with the project_id, zone_id and record_set_id of
\* the configuration: no create, update or delete request, no wait handler.
C10_DataSourceReadOnly ==
  DataSourceHasRead =>
    \A i \in 1..Len(resp.calls) :
      /\ resp.calls[i].name = "GetRecordSet"
      /\ ~resp.calls[i].wait
      /\ resp.calls[i].args = <<ValueString(req.model.ProjectId),
                                ValueString(req.model.ZoneId),
                                ValueString(req.model.RecordSetId)>>

C10_Witness ==
  /\ DataSourceHasRead /\ resp.stateSet
  /\ Len(resp.calls) = 1
  /\ resp.calls[1].args = <<ProjectA, ZoneB, <<"a">>>>

ArgusImported(setAttrs) ==
  ArgusModel(StringValue(setAttrs[1].value), StringValue(setAttrs[2].value),
             StringNull, StringNull, StringNull, MapNull, StringNull, "null")

DnsImported(setAttrs) ==
  DnsModel(StringNull, StringValue(setAttrs[3].value), StringValue(setAttrs[2].value),
           StringValue(setAttrs[1].value), BoolNull, StringNull, StringNull, ListNull,
           Int64Null, StringNull, StringNull, StringNull)

\* The import identifier of the resource in the state Create wrote.
ImportIdOf(state) ==
  IF kind = "argus"
  THEN ValueString(state.ProjectId) \o <<Separator>> \o ValueString(state.InstanceId)
  ELSE ValueString(state.ProjectId) \o <<Separator>> \o ValueString(state.ZoneId)
         \o <<Separator>> \o ValueString(state.RecordSetId)

PlainIds(state) ==
  /\ Plain(ValueString(state.ProjectId))
  /\ IF kind = "argus" THEN Plain(ValueString(state.InstanceId))
     ELSE Plain(ValueString(state.ZoneId)) /\ Plain(ValueString(state.RecordSetId))

\* What the API returned to the create wait handler, returned again to Read.
SameAsWait == [err |-> FALSE, resp |-> resp.calls[Len(resp.calls)].answer.resp]

\* ImportState of the created resource followed by Read.
ImportThenRead ==
  IF kind = "argus"
  THEN LET imp == ArgusImportState(ImportIdOf(resp.state))
       IN IF HasError(imp.diags) THEN imp
          ELSE ArgusRead(TRUE, ArgusImported(imp.setAttrs), SameAsWait)
  ELSE LET imp == DnsImportState(ImportIdOf(resp.state))
       IN IF HasError(imp.diags) THEN imp
          ELSE DnsRead(TRUE, DnsImported(imp.setAttrs), SameAsWait)

\* C12: after a successful Create of a resource with well-formed
\* identifiers, ImportState of '<project_id>,<instance_id>' (resp.
\* '<project_id>,<zone_id>,<record_set_id>') followed by Read, the API
\* answering as it did to the create wait handler, yields a state equal
\* attribute by attribute to the one Create wrote.
C12_ImportRoundTrip ==
  (Created /\ ~HasError(resp.diags) /\ kind \in {"argus", "dns"} /\ PlainIds(resp.state)) =>
    /\ ImportThenRead.stateSet
    /\ ImportThenRead.state = resp.state

\* The prior states of the resource that name the record set of the configuration.
SameRecordSet(config) ==
  {s \in DnsStates : /\ s.ProjectId = config.ProjectId
                     /\ s.ZoneId = config.ZoneId
                     /\ s.RecordSetId = config.RecordSetId}

\* C13: for the same project_id, zone_id and record_set_id and the same
\* GetRecordSet response, Read of the data source and Read of the resource
\* write the same value for every attribute (and one writes state exactly
\* when the other does).
C13_DataSourceAsResource ==
  (DataSourceHasRead /\ req.ok) =>
    \A s \in SameRecordSet(req.model) :
      LET rd == DnsRead(TRUE, s, resp.calls[1].answer)
      IN /\ rd.stateSet = resp.stateSet
         /\ rd.stateSet => rd.state = resp.state

C13_Witness ==
  /\ DataSourceHasRead /\ resp.stateSet
  /\ Cardinality(SameRecordSet(req.model)) > 1
  /\ resp.state.Comment = StringValue(<<"c">>)

Refreshed ==
  /\ pc = "done" /\ kind \in {"argus", "dns"}
  /\ req.op \in {"Read", "Update"} /\ resp.stateSet

\* C14: the state a successful Read or Update writes has the project_id
\* (and zone_id) and the instance_id / record_set_id of the state or plan
\* the operation started from, whatever the API answered.
C14_IdentityKept ==
  Refreshed =>
    /\ resp.state.ProjectId = req.model.ProjectId
    /\ IF kind = "argus"
       THEN resp.state.InstanceId = req.model.InstanceId
       ELSE /\ resp.state.ZoneId = req.model.ZoneId
            /\ resp.state.RecordSetId = req.model.RecordSetId

WithEndpoint(c) == \E i \in 1..Len(c.options) : c.options[i] = "WithEndpoint"

\* C15: Configure with nil provider data adds no diagnostic and leaves the
\* client as it was; with provider data of another type, or when the API
\* client constructor fails, it adds an error diagnostic and leaves the
\* client as it was; otherwise it sets the client, built with the custom
\* endpoint if and only if the custom endpoint is non-empty.
C15_Configure ==
  [][req'.op = "Configure" =>
       IF req'.providerData.type = "nil"
       THEN client' = client /\ ~HasError(resp'.diags)
       ELSE IF req'.providerData.type # "ProviderData" \/ req'.newClientErr
       THEN client' = client /\ HasError(resp'.diags)
       ELSE /\ client'.configured
            /\ ~HasError(resp'.diags)
            /\ WithEndpoint(client') <=> req'.providerData.customEndpoint # <<>>]_vars

C15_Witness ==
  /\ pc = "done" /\ req.op = "Configure"
  /\ req.providerData.customEndpoint # <<>> /\ ~req.newClientErr
  /\ client.configured /\ WithEndpoint(client)

\* The Computed attributes of the Argus instance schema that C16 names.
ComputedAttributes ==
  {"Id", "InstanceId", "PlanId", "DashboardURL", "IsUpdatable", "GrafanaURL",
   "GrafanaPublicReadAccess", "GrafanaInitialAdminPassword", "GrafanaInitialAdminUser",
   "MetricsRetentionDays", "MetricsRetentionDays5mDownsampling",
   "MetricsRetentionDays1hDownsampling", "MetricsURL", "MetricsPushURL", "TargetsURL",
   "AlertingURL", "LogsURL", "LogsPushURL", "JaegerTracesURL", "JaegerUIURL",
   "OtlpTracesURL", "ZipkinSpansURL"}

\* C16: whenever Create of the Argus instance writes state, every Computed
\* attribute holds a known value or null; none is left unknown as the plan
\* had it, also when the response has no Instance part.
C16_CreateFullyPopulated ==
  (Created /\ kind = "argus") =>
    \A a \in ComputedAttributes : resp.state[a].k # "unknown"

LoadPlanIdFailed ==
  /\ pc = "done" /\ kind = "argus" /\ req.op \in {"Create", "Update"}
  /\ \E i \in 1..Len(resp.diags) :
       resp.diags[i] \in {"Failed to list argus plans", "Invalid plan_name"}

\* C17: when loadPlanId fails in Create or Update of the Argus instance
\* (GetPlans returns an error, or no plan matches plan_name), the method
\* returns without the CreateInstance / UpdateInstance request and without
\* writing state.
C17_StopsWithoutPlanId ==
  LoadPlanIdFailed =>
    /\ \A i \in 1..Len(resp.calls) : resp.calls[i].name \notin {"CreateInstance", "UpdateInstance"}
    /\ ~resp.stateSet

DeleteRequestFailed ==
  /\ pc = "done" /\ kind = "dns" /\ req.op = "Delete"
  /\ Len(resp.calls) >= 1 /\ ~resp.calls[1].ok

\* C18: when DeleteRecordSet returns an error, Delete of the DNS record set
\* reports it and stops; the delete wait handler is not invoked.
C18_NoWaitAfterFailedDelete ==
  DeleteRequestFailed =>
    /\ HasError(resp.diags)
    /\ \A i \in 1..Len(resp.calls) : ~resp.calls[i].wait

\* Create or Update of the Argus instance got a plan list from GetPlans.
PlansListed ==
  /\ pc \in {"done", "crashed"} /\ kind = "argus" /\ req.op \in {"Create", "Update"}
  /\ Len(resp.calls) >= 1 /\ resp.calls[1].name = "GetPlans"
  /\ resp.calls[1].ok /\ resp.calls[1].answer.plans.some

ListedPlans == resp.calls[1].answer.plans.v

\* The plans of the list that the requested plan_name designates.
MatchingPlans ==
  {i \in 1..Len(ListedPlans) :
     /\ ListedPlans[i].Name.some
     /\ ListedPlans[i].PlanId.some
     /\ EqualFold(ListedPlans[i].Name.v, ValueString(req.model.PlanName))}

InvalidPlanName == \E i \in 1..Len(resp.diags) : resp.diags[i] = "Invalid plan_name"

\* C19: when no plan with a non-nil id has a name equal to plan_name ignoring
\* case, loadPlanId adds an 'Invalid plan_name' error, also when the model
\* already carries a non-empty plan_id from prior state.
C19_UnknownPlanNameRejected ==
  (PlansListed /\ MatchingPlans = {}) => InvalidPlanName

\* C20: when some plan with a non-nil id has a name equal to plan_name ignoring
\* case, loadPlanId sets plan_id to the id of the first such plan and adds no
\* diagnostic, and the CreateInstance / UpdateInstance payload carries that id.
C20_PlanNameResolved ==
  (PlansListed /\ MatchingPlans # {}) =>
    LET first == CHOOSE i \in MatchingPlans : \A j \in MatchingPlans : i <= j
        id == ListedPlans[first].PlanId.v
        lp == loadPlanId(NoDiags, req.model, resp.calls[1].answer)
    IN /\ lp.model.PlanId = StringValue(id)
       /\ lp.diags = NoDiags
       /\ ~InvalidPlanName
       /\ \A i \in 1..Len(resp.calls) :
            resp.calls[i].name \in {"CreateInstance", "UpdateInstance"}
              => resp.calls[i].payload.PlanId = Ptr(id)

\* mapFields succeeded and the handler stored the model it produced.
MappedState ==
  /\ pc = "done" /\ resp.stateSet /\ resp.mapped = "ok"
  /\ req.op \in {"Create", "Read", "Update"}

\* The component identifiers the stored model holds, in the order of the id.
Components(model) ==
  IF kind = "argus"
  THEN <<ValueString(model.ProjectId), ValueString(model.InstanceId)>>
  ELSE <<ValueString(model.ProjectId), ValueString(model.ZoneId), ValueString(model.RecordSetId)>>

\* C21: after every successful mapFields the model's id is the model's own
\* component identifiers joined by the separator (project_id,instance_id for
\* the Argus instance; project_id,zone_id,record_set_id for the DNS record
\* set), whatever the Id of the response.
C21_IdIsJoinedComponents ==
  MappedState => ValueString(resp.state.Id) = Join(Components(resp.state))

\* A handler called mapFields and it returned.
ReachedMapFields == pc = "done" /\ resp.mapped \in {"ok", "err"}

ResponseNil == ~Mapped.some \/ (kind # "argus" /\ ~Mapped.v.Rrset.some)

ModelId == IF kind = "argus" THEN req.model.InstanceId ELSE req.model.RecordSetId

ResponseId == IF kind = "argus" THEN Mapped.v.Id ELSE Mapped.v.Rrset.v.Id

MapFieldsOn(model) ==
  IF kind = "argus" THEN ArgusMapFieldsOn(Mapped, model) ELSE DnsMapFieldsOn(Mapped, model)

\* C22: mapFields takes the identifier already in the model if it is
\* non-empty, otherwise the Id of the response if it is present, otherwise
\* it returns an '... id not present' error and leaves the model unchanged;
\* it also returns an error and changes nothing when the response (for DNS
\* also its Rrset) or the model is nil.
C22_IdPrecedence ==
  ReachedMapFields =>
    LET out == MapFieldsOn(Ptr(req.model))
        onNil == MapFieldsOn(NilModel)
    IN /\ ResponseNil =>
            /\ out.err = "response input is nil" /\ out.model = Ptr(req.model)
            /\ resp.mapped = "err" /\ ~resp.stateSet
       /\ onNil.err = (IF ResponseNil THEN "response input is nil" ELSE "model input is nil")
       /\ onNil.model = NilModel
       /\ (~ResponseNil /\ ValueString(ModelId) = <<>> /\ ~ResponseId.some) =>
            /\ out.err = (IF kind = "argus" THEN "instance id not present"
                                            ELSE "record set id not present")
            /\ out.model = Ptr(req.model)
            /\ resp.mapped = "err" /\ ~resp.stateSet
       /\ (~ResponseNil /\ (ValueString(ModelId) # <<>> \/ ResponseId.some)) =>
            LET chosen == IF ValueString(ModelId) # <<>> THEN ValueString(ModelId)
                          ELSE ResponseId.v
                parts == IF kind = "argus"
                         THEN <<ValueString(req.model.ProjectId), chosen>>
                         ELSE <<ValueString(req.model.ProjectId),
                                ValueString(req.model.ZoneId), chosen>>
            IN /\ out.err = "" /\ resp.mapped = "ok" /\ resp.stateSet
               /\ resp.state.Id = StringValue(Join(parts))
               /\ out.model.v.Id = StringValue(Join(parts))

\* Read of a DNS record set whose state holds an identifier other than the
\* one in the response: the model's is joined into id.
C22_Witness ==
  /\ ReachedMapFields /\ kind = "dns" /\ req.op = "Read"
  /\ ValueString(ModelId) = <<"b">> /\ ResponseId = Ptr(<<"a", Separator, "b">>)
  /\ resp.state.Id = StringValue(<<"a", Separator, "b", Separator, "b">>)

\* Create got an answer without error from the SDK's create request.
CreateAnswered ==
  /\ pc = "done" /\ req.op = "Create" /\ kind \in {"argus", "dns"}
  /\ Len(resp.calls) >= (IF kind = "argus" THEN 2 ELSE 1)
  /\ resp.calls[IF kind = "argus" THEN 2 ELSE 1].name \in {"CreateInstance", "CreateRecordSet"}
  /\ resp.calls[IF kind = "argus" THEN 2 ELSE 1].ok

CreateAnswer == resp.calls[IF kind = "argus" THEN 2 ELSE 1].answer

NoIdentifier ==
  IF kind = "argus"
  THEN ~CreateAnswer.instanceId.some \/ CreateAnswer.instanceId.v = <<>>
  ELSE CreateAnswer.resp.some
       /\ (~CreateAnswer.resp.v.Rrset.some \/ ~CreateAnswer.resp.v.Rrset.v.Id.some)

\* C23: when the create request returns without error but the Argus
\* response has a nil or empty InstanceId, or the DNS response has a nil
\* Rrset or a nil Rrset.Id, Create adds an error diagnostic, does not invoke
\* the wait handler and does not write state.
C23_CreateWithoutIdIsError ==
  (CreateAnswered /\ NoIdentifier) =>
    /\ HasError(resp.diags)
    /\ \A i \in 1..Len(resp.calls) : ~resp.calls[i].wait
    /\ ~resp.stateSet

C23_Witness ==
  /\ CreateAnswered /\ kind = "argus"
  /\ CreateAnswer.instanceId = Ptr(<<>>)
  /\ Len(resp.calls) = 2
  /\ resp.diags = <<"Error creating instance">>

WaitCalls == {i \in 1..Len(resp.calls) : resp.calls[i].wait}

WaitTimeout(name) ==
  CASE name = "CreateInstanceWaitHandler" -> 20
    [] name = "UpdateInstanceWaitHandler" -> 20
    [] name = "DeleteInstanceWaitHandler" -> 10
    [] name \in {"CreateRecordSetWaitHandler", "UpdateRecordSetWaitHandler",
                 "DeleteRecordSetWaitHandler"} -> 1

\* C24: every wait handler is invoked with a fixed timeout (1 minute for the
\* DNS record set's create, update and delete, 20 minutes for the Argus
\* instance's create and update, 10 minutes for its delete), and is given
\* the same context the operation received.
C24_FixedTimeoutSameContext ==
  Finished =>
    \A i \in WaitCalls :
      /\ resp.calls[i].timeout = WaitTimeout(resp.calls[i].name)
      /\ resp.calls[i].ctx = RequestContext

\* C24, amended: the timeouts are as stated; the Argus instance's wait
\* handlers are given the context the operation received, the DNS record
\* set's a context derived from it that is cancelled with it and carries
\* the log fields project_id, zone_id and record_set_id.
C24_FixedTimeoutDerivedContext ==
  Finished =>
    \A i \in WaitCalls :
      /\ resp.calls[i].timeout = WaitTimeout(resp.calls[i].name)
      /\ resp.calls[i].ctx.done = RequestContext.done
      /\ kind = "argus" => resp.calls[i].ctx = RequestContext
      /\ kind = "dns" =>
           resp.calls[i].ctx.fields =
             <<<<"project_id", ValueString(req.model.ProjectId)>>,
               <<"zone_id", ValueString(req.model.ZoneId)>>,
               <<"record_set_id", resp.calls[i].args[3]>>>>

C24_Witness ==
  /\ Finished /\ kind = "dns" /\ req.op = "Delete"
  /\ Len(resp.calls) = 2 /\ resp.calls[2].wait
  /\ resp.calls[2].timeout = 1
  /\ resp.calls[2].ctx = RecordSetContext(ProjectA, ZoneB, <<"b">>)

\* The destroy check returned nil.
CheckPassed == pc = "done" /\ req.op = "CheckDestroy" /\ resp.err = ""

\* The instance ids recorded in the Terraform state.
RecordedIds ==
  {Split(req.resources[k].ID)[2] :
     k \in {n \in 1..Len(req.resources) : req.resources[n].Type = "stackit_postgresql_instance"}}

\* The instances of the project's list that the state recorded.
Remaining ==
  {n \in 1..Len(req.getInstances.instances.v) :
     /\ req.getInstances.instances.v[n].InstanceId.some
     /\ req.getInstances.instances.v[n].InstanceId.v \in RecordedIds}

SuccessfulDelete(i) ==
  /\ i.LastOperation.Type = Ptr(InstanceTypeDelete)
  /\ i.LastOperation.State = Ptr(InstanceStateSuccess)
  /\ i.LastOperation.Description.some
  /\ ~Contains(i.LastOperation.Description.v, <<"f", "a", "i", "l", "e", "d">>)
  /\ ~Contains(i.LastOperation.Description.v,
               <<"D", "e", "l", "e", "t", "e", "F", "a", "i", "l", "e", "d">>)

DeletedByCheck(id) ==
  \E j \in 1..(Len(resp.calls) - 1) :
    /\ resp.calls[j].name = "DeleteInstance" /\ resp.calls[j].ok
    /\ resp.calls[j].args = <<TestProjectId, id>>
    /\ resp.calls[j + 1].name = "DeleteInstanceWaitHandler" /\ resp.calls[j + 1].ok
    /\ resp.calls[j + 1].args = <<TestProjectId, id>>

\* C25: when the destroy check returns nil, every instance id recorded in
\* the Terraform state that still appears in the project's instance list
\* has a last operation that is a successful delete, or was deleted by the
\* check (DeleteInstance issued and the delete wait handler succeeded); when
\* a delete or a wait fails, the check returns an error.
C25_DestroyLeavesNothing ==
  /\ CheckPassed =>
       \A n \in Remaining :
         LET i == req.getInstances.instances.v[n]
         IN SuccessfulDelete(i) \/ DeletedByCheck(i.InstanceId.v)
  /\ (pc = "done" /\ req.op = "CheckDestroy"
      /\ \E j \in 1..Len(resp.calls) : ~resp.calls[j].ok) => resp.err # ""

\* Two recorded instances are still listed: one was deleted before, the
\* other is deleted by the check.
C25_Witness ==
  /\ CheckPassed
  /\ Cardinality(Remaining) = 2
  /\ \E n \in Remaining : SuccessfulDelete(req.getInstances.instances.v[n])
  /\ \E n \in Remaining :
       /\ ~SuccessfulDelete(req.getInstances.instances.v[n])
       /\ DeletedByCheck(req.getInstances.instances.v[n].InstanceId.v)
  /\ Len(resp.calls) = 3

====
